---- MODULE Spec2Model ----
(***************************************************************************)
(* Model of the xet download coordinator of sgl-project/ome (pkg/xet).     *)
(*                                                                         *)
(*   SpecRetry    HfAdapter::send_with_retry            (hf_adapter.rs)    *)
(*   SpecProgress OperationProgress                     (progress.rs)      *)
(*   SpecToken    XetTokenManager behind its tokio mutex (xet_integration) *)
(*   Spec         download_file / download_snapshot through the C-ABI      *)
(*                                                                         *)
(* Every specification owns a group of variables and leaves the other      *)
(* groups at their initial value.                                          *)
(***************************************************************************)
EXTENDS Integers, Sequences, FiniteSets, TLC

VARIABLES
    \* ---- send_with_retry ----
    rKind,        \* which caller: "list", "head" or "get" (selects is_success)
    rPc,          \* "send" | "sleep" | "done"
    rAttempt,     \* the loop variable `attempt`
    rOutcomes,    \* responses received so far, one per outbound attempt
    rWaits,       \* milliseconds slept so far, in order
    rResult,      \* "none" | "ok" | "err"
    \* ---- OperationProgress ----
    pOp,          \* OperationProgressState plus the copied throttle
    pClock,       \* Instant::now(), in milliseconds
    pCall,        \* the latest call on the operation: "none" | "forced" | "unforced"
    \* ---- XetTokenManager behind Arc<tokio::sync::Mutex<_>> ----
    tmCache,      \* cached_connection_info: NoConn or [info, route]
    tmLock,       \* holder of the mutex guard, 0 when free
    tmNow,        \* SystemTime::now() in unix seconds
    tmGets,       \* per refresh route: GETs sent so far
    tmCalls,      \* refresh calls started so far
    tmFailed,     \* some refresh GET has failed so far
    tmObtained,   \* expirations of the connections obtained so far
    qPc,          \* per caller: "idle" | "waiting" | "fetching" | "done"
    qRoute,       \* per caller: file_data.refresh_route
    qResult,      \* per caller: "none" | "cached" | "fetched" | "err_send" |
                  \* "err_status" | "err_headers" (the three Err returns)
    qConn,        \* per caller: the connection info returned
    qWaited,      \* per caller: it queued on the mutex behind a GET
    \* ---- one download call through the C-ABI ----
    opMode,       \* "file" (xet_download_file) | "snapshot"
    opPc,         \* "created" | "listing" | "running" | "done"
    opResult,     \* "none" | "ok" | the error returned by the adapter
    retCode,      \* XetError.code returned to C, 0 for a null error, -1 before
    outWritten,   \* *out_path has been written
    cfgMaxConc,   \* HfAdapter::max_concurrent
    cfgDedup,     \* HfAdapter::enable_dedup
    hasProgress,  \* new_progress_operation() returned Some
    nFiles,       \* files 1..nFiles are in the tree listing
    fSize,        \* per file: the size its descriptor carries
    reqFile,      \* the filename asked of download_file
    cancel,       \* what the cancellation callback returns when polled now
    everCancel,   \* the callback has been in its `true` state at some time
    disk,         \* per file: bytes at the destination, Missing if none
    stale,        \* files whose destination holds bytes other than the server's
    initDisk,     \* the disk when the call started
    listSent,     \* tree-listing requests issued
    permits,      \* permits left in the snapshot semaphore
    firstErr,     \* [task, err] of the first failed result in completion order
    tPc,          \* per file task: position in download_file_with_info
    tRes,         \* per file task: "none" | "ok" | error
    tHow,         \* per file task: path that produced Ok
    tNet,         \* per file task: kinds of request it has issued
    tGot,         \* per file task: `downloaded`
    tLen,         \* per file task: length of the body it was served
    tXetErr,      \* per file task: download_with_xet returned Err
    callPc,       \* a single function call: "idle" | "call" | "returned"
    callArgs,     \* the arguments of that call
    callRet       \* what the call returned

retryVars == <<rKind, rPc, rAttempt, rOutcomes, rWaits, rResult>>
progVars == <<pOp, pClock, pCall>>
tokenVars == <<tmCache, tmLock, tmNow, tmGets, tmCalls, tmFailed, tmObtained,
               qPc, qRoute, qResult, qConn, qWaited>>
dlVars == <<fSize, opMode, opPc, opResult, retCode, outWritten, cfgMaxConc, cfgDedup,
            hasProgress, nFiles, reqFile, cancel, everCancel, disk, stale,
            initDisk, listSent, permits, firstErr, tPc, tRes, tHow, tNet, tGot,
          tLen, tXetErr>>

callVars == <<callPc, callArgs, callRet>>

vars == <<rKind, rPc, rAttempt, rOutcomes, rWaits, rResult,
          pOp, pClock, pCall,
          tmCache, tmLock, tmNow, tmGets, tmCalls, tmFailed, tmObtained,
          qPc, qRoute, qResult, qConn, qWaited,
          fSize, opMode, opPc, opResult, retCode, outWritten, cfgMaxConc,
          cfgDedup, hasProgress, nFiles, reqFile, cancel, everCancel, disk, stale,
          initDisk, listSent, permits, firstErr, tPc, tRes, tHow, tNet, tGot,
          tLen, tXetErr, callPc, callArgs, callRet>>

-----------------------------------------------------------------------------
(* send_with_retry                                                         *)

MAX_HTTP_RETRIES == 3
RETRY_BACKOFF_MS == 200

\* What one outbound attempt can come back with: a status class or a
\* transport error (builder().send() returning Err).
Responses == {"2xx", "3xx", "4xx", "5xx", "neterr"}

RetryKinds == {"list", "head", "get"}

\* The is_success closure each caller passes.
IsSuccess(kind, resp) ==
    IF kind = "head" THEN resp \in {"2xx", "3xx"} ELSE resp = "2xx"

\* Duration slept after failed attempt number `attempt` (0-based).
BackoffMutant(attempt) == RETRY_BACKOFF_MS
Backoff(attempt) == RETRY_BACKOFF_MS * (attempt + 1)

RetryIdle ==
    /\ rKind = "list"
    /\ rPc = "done"
    /\ rAttempt = 0
    /\ rOutcomes = <<>>
    /\ rWaits = <<>>
    /\ rResult = "none"

InitRetryOnly ==
    /\ rKind \in RetryKinds
    /\ rPc = "send"
    /\ rAttempt = 0
    /\ rOutcomes = <<>>
    /\ rWaits = <<>>
    /\ rResult = "none"

RetrySendMutant(resp) ==
    /\ rPc = "send"
    /\ rOutcomes' = Append(rOutcomes, resp)
    /\ IF rAttempt = MAX_HTTP_RETRIES
         THEN /\ rPc' = "done"
              /\ rResult' = IF IsSuccess(rKind, resp) THEN "ok" ELSE "err"
         ELSE /\ rPc' = "sleep"
              /\ rResult' = rResult
    /\ UNCHANGED <<rKind, rAttempt, rWaits>>

\* One iteration of the loop body up to the sleep: send, test, return or fall
\* through to the backoff.
RetrySend(resp) ==
    /\ rPc = "send"
    /\ rOutcomes' = Append(rOutcomes, resp)
    /\ IF IsSuccess(rKind, resp)
         THEN /\ rPc' = "done"
              /\ rResult' = "ok"
         ELSE IF rAttempt = MAX_HTTP_RETRIES
                THEN /\ rPc' = "done"
                     /\ rResult' = "err"
                ELSE /\ rPc' = "sleep"
                     /\ rResult' = rResult
    /\ UNCHANGED <<rKind, rAttempt, rWaits>>

\* sleep(RETRY_BACKOFF_MS * (attempt + 1)) and the loop increment.
RetrySleep ==
    /\ rPc = "sleep"
    /\ rWaits' = Append(rWaits, Backoff(rAttempt))
    /\ rAttempt' = rAttempt + 1
    /\ rPc' = "send"
    /\ UNCHANGED <<rKind, rOutcomes, rResult>>

-----------------------------------------------------------------------------
(* OperationProgress (progress.rs).  File names are file ids; byte counts  *)
(* are u64 scaled to 0..U64_MAX.                                           *)

MaxFiles == 2            \* files in the repository fixture
MaxVal == 1              \* largest ordinary byte count passed to the aggregator
U64_MAX == 3             \* u64::MAX, scaled
U32_MAX == 5             \* u32::MAX, scaled
DefaultThrottleMs == 200
TickMs == 100            \* granularity of the clock
MaxClock == 200          \* the clock stops here
MaxEmits == 3            \* callback invocations in one run of the aggregator

FileIds == 1..MaxFiles
PVals == (0..MaxVal) \cup {U64_MAX}
Phases == {"Scanning", "Downloading", "Finalizing"}

NoEntry == [present |-> FALSE, total_bytes |-> 0, completed_bytes |-> 0]
NoHint == -1
NoInstant == -1
NoFile == 0

Max(a, b) == IF a >= b THEN a ELSE b
Min(a, b) == IF a <= b THEN a ELSE b

\* u64::saturating_add
SaturatingAdd(a, b) == IF a + b > U64_MAX THEN U64_MAX ELSE a + b

\* ProgressHandler::configure's throttle rule.
ThrottleOf(throttle_ms) ==
    IF throttle_ms = 0 THEN DefaultThrottleMs ELSE throttle_ms

\* What the user callback has been handed so far: the number of
\* invocations, the phase and file counts of the latest update, the number
\* of updates with phase Finalizing, and whether some update carried an
\* earlier phase than the one before it.
NoCalls ==
    [calls |-> 0, phase |-> "Scanning", total_files |-> 0,
     completed_files |-> 0, finalizing |-> 0, back |-> FALSE]

PhaseRank(phase) ==
    CASE phase = "Scanning" -> 0
      [] phase = "Downloading" -> 1
      [] phase = "Finalizing" -> 2

\* OperationProgress::new
NewOperation(throttle) ==
    [phase |-> "Scanning",
     total_bytes |-> 0,
     completed_bytes |-> 0,
     files |-> [f \in FileIds |-> NoEntry],
     total_files_hint |-> NoHint,
     last_emit |-> NoInstant,
     throttle |-> throttle,
     cb |-> NoCalls]

\* files.entry(name).or_default()
EntryOrDefault(st, name) ==
    IF st.files[name].present THEN st.files[name]
    ELSE [present |-> TRUE, total_bytes |-> 0, completed_bytes |-> 0]

EmitFiresMutant(st, force, now) ==
    \/ force
    \/ st.last_emit = NoInstant
    \/ ~(now - st.last_emit <= st.throttle)

\* The throttle test at the head of emit.  `now` is the clock reading.
EmitFires(st, force, now) ==
    \/ force
    \/ st.last_emit = NoInstant
    \/ ~(now - st.last_emit < st.throttle)

CompletedFilesMutant(st) ==
    Cardinality({f \in FileIds :
        /\ st.files[f].present
        /\ st.files[f].completed_bytes >= st.files[f].total_bytes})

CompletedFiles(st) ==
    Cardinality({f \in FileIds :
        /\ st.files[f].present
        /\ st.files[f].total_bytes > 0
        /\ st.files[f].completed_bytes >= st.files[f].total_bytes})

TotalFiles(st) ==
    LET hint == IF st.total_files_hint = NoHint
                  THEN Cardinality({f \in FileIds : st.files[f].present})
                  ELSE st.total_files_hint
    IN  Min(hint, U32_MAX)

\* The XetProgressUpdate that emit builds under the lock; name = NoFile is
\* EmitFileInfo::None.
BuildUpdate(st, name, completed, total) ==
    [phase |-> st.phase,
     total_bytes |-> st.total_bytes,
     completed_bytes |-> st.completed_bytes,
     total_files |-> TotalFiles(st),
     completed_files |-> Min(CompletedFiles(st), U32_MAX),
     current_file |-> name,
     current_file_completed_bytes |-> IF name = NoFile THEN 0 ELSE completed,
     current_file_total_bytes |-> IF name = NoFile THEN 0 ELSE total]

\* (callback)(&update, user_data), after the lock is dropped.
Callback(st, update) ==
    [st EXCEPT !.cb =
        [calls |-> @.calls + 1,
         phase |-> update.phase,
         total_files |-> update.total_files,
         completed_files |-> update.completed_files,
         finalizing |-> @.finalizing
                          + (IF update.phase = "Finalizing" THEN 1 ELSE 0),
         back |-> \/ @.back
                  \/ /\ @.calls > 0
                     /\ PhaseRank(update.phase) < PhaseRank(@.phase)]]

\* emit: when it fires it stamps last_emit, builds the update under the
\* lock and hands it to the callback.
Emit(st, force, now) ==
    IF EmitFires(st, force, now)
    THEN Callback([st EXCEPT !.last_emit = now], BuildUpdate(st, NoFile, 0, 0))
    ELSE st

SetPhase(st, phase, force, now) ==
    Emit([st EXCEPT !.phase = phase], force, now)

SetTotalHint(st, total_files, total_bytes) ==
    [st EXCEPT !.total_files_hint = total_files,
               !.total_bytes = IF total_bytes > @ THEN total_bytes ELSE @]

SetTotalBytes(st, total_bytes) ==
    [st EXCEPT !.total_bytes = IF total_bytes > @ THEN total_bytes ELSE @]

SetCompletedBytes(st, completed_bytes) ==
    [st EXCEPT !.completed_bytes =
                   IF completed_bytes > @ THEN completed_bytes ELSE @]

EnsureFileEntryMutant(st, name, total_bytes) ==
    LET entry == EntryOrDefault(st, name)
    IN  [st EXCEPT !.files[name] =
            [entry EXCEPT !.total_bytes =
                IF total_bytes > 0 THEN total_bytes ELSE @]]

EnsureFileEntry(st, name, total_bytes) ==
    LET entry == EntryOrDefault(st, name)
    IN  [st EXCEPT !.files[name] =
            [entry EXCEPT !.total_bytes =
                IF total_bytes > 0 THEN Max(@, total_bytes) ELSE @]]

\* The locked part of update_file_absolute (up to drop(state)).
UpdateFileStateMutant(st, name, completed, total) ==
    LET entry == EntryOrDefault(st, name)
    IN  [st EXCEPT
           !.files[name] =
               [entry EXCEPT !.total_bytes = IF total > 0 THEN total ELSE @,
                             !.completed_bytes = completed],
           !.completed_bytes = SaturatingAdd(@, completed)]
UpdateFileState(st, name, completed, total) ==
    LET entry == EntryOrDefault(st, name)
        grow == completed > entry.completed_bytes
        delta == completed - entry.completed_bytes
    IN  [st EXCEPT
           !.files[name] =
               [entry EXCEPT !.total_bytes = IF total > 0 THEN Max(@, total)
                                             ELSE @,
                             !.completed_bytes = IF grow THEN completed ELSE @],
           !.completed_bytes = IF grow THEN SaturatingAdd(@, delta) ELSE @]

UpdateFileAbsolute(st, name, completed, total, force, now) ==
    Emit(UpdateFileState(st, name, completed, total), force, now)

\* apply_tracking_update for a batch carrying one item.
\* u = [total_transfer_bytes, total_transfer_bytes_completed, item_name,
\* bytes_completed, total_bytes].
ApplyTrackingUpdate(st, u, now) ==
    UpdateFileAbsolute(
        SetCompletedBytes(SetTotalBytes(st, u.total_transfer_bytes),
                          u.total_transfer_bytes_completed),
        u.item_name, u.bytes_completed, u.total_bytes, FALSE, now)

TrackingUpdate(tt, td, name, c, t) ==
    [total_transfer_bytes |-> tt, total_transfer_bytes_completed |-> td,
     item_name |-> name, bytes_completed |-> c, total_bytes |-> t]

FinalizeScanning(st, now) == SetPhase(st, "Scanning", TRUE, now)

FinalizeTwice(st, now) ==
    SetPhase(SetPhase(st, "Finalizing", TRUE, now), "Finalizing", TRUE, now)

Finalize(st, now) == SetPhase(st, "Finalizing", TRUE, now)

ProgIdle ==
    /\ pOp = NewOperation(DefaultThrottleMs)
    /\ pClock = 0
    /\ pCall = "none"

InitProgressOnly ==
    /\ pOp = NewOperation(ThrottleOf(0))
    /\ pClock = 0
    /\ pCall = "none"

\* The operation without the record of what its callback was handed.
Quiet(st) == [st EXCEPT !.cb = NoCalls]

\* Each action is one call on the shared operation, reading the clock for
\* its emit.  These actions follow the aggregate only.
PSetPhase(phase, force) ==
    /\ pOp' = Quiet(SetPhase(pOp, phase, force, pClock))
    /\ UNCHANGED <<pClock, pCall>>

PSetTotalHint(total_files, total_bytes) ==
    /\ pOp' = Quiet(SetTotalHint(pOp, total_files, total_bytes))
    /\ UNCHANGED <<pClock, pCall>>

PSetTotalBytes(total_bytes) ==
    /\ pOp' = Quiet(SetTotalBytes(pOp, total_bytes))
    /\ UNCHANGED <<pClock, pCall>>

PSetCompletedBytes(completed_bytes) ==
    /\ pOp' = Quiet(SetCompletedBytes(pOp, completed_bytes))
    /\ UNCHANGED <<pClock, pCall>>

PEnsureFileEntry(name, total_bytes) ==
    /\ pOp' = Quiet(EnsureFileEntry(pOp, name, total_bytes))
    /\ UNCHANGED <<pClock, pCall>>

PUpdateFileAbsolute(name, completed, total, force) ==
    /\ pOp' = Quiet(UpdateFileAbsolute(pOp, name, completed, total, force, pClock))
    /\ UNCHANGED <<pClock, pCall>>

PApplyTrackingUpdate(u) ==
    /\ pOp' = Quiet(ApplyTrackingUpdate(pOp, u, pClock))
    /\ UNCHANGED <<pClock, pCall>>

\* Time passes.
PTick ==
    /\ pClock + TickMs <= MaxClock
    /\ pClock' = pClock + TickMs
    /\ UNCHANGED <<pOp, pCall>>

\* The calls again, this time with the callback's record kept: set_phase and
\* update_file_absolute on one file, forced or not.
ESetPhase(phase, force) ==
    /\ pOp' = SetPhase(pOp, phase, force, pClock)
    /\ pOp'.cb.calls <= MaxEmits
    /\ pCall' = IF force THEN "forced" ELSE "unforced"
    /\ UNCHANGED pClock

EUpdateFile(completed, force) ==
    /\ pOp' = UpdateFileAbsolute(pOp, 1, completed, MaxVal, force, pClock)
    /\ pOp'.cb.calls <= MaxEmits
    /\ pCall' = IF force THEN "forced" ELSE "unforced"
    /\ UNCHANGED pClock

ETick ==
    /\ pClock + TickMs <= MaxClock
    /\ pClock' = pClock + TickMs
    /\ pCall' = "none"
    /\ UNCHANGED pOp

-----------------------------------------------------------------------------
(* XetTokenManager (xet_integration.rs) and the mutex its callers take     *)
(* (hf_adapter.rs download_with_xet, xet_downloader.rs HfTokenRefresher).  *)

NumCallers == 2          \* tasks calling refresh on one client
MaxCalls == 2            \* refresh calls in one run
MaxNow == 2              \* the wall clock stops here
TOKEN_MARGIN_S == 60

Callers == 1..NumCallers
Routes == {"routeA", "routeB"}
ExpVals == {60, 61, 63}
Absent == "absent"
ExpAbsent == -1          \* no x-xet-token-expiration header
ExpNotU64 == -2          \* a header value that parse::<u64>() rejects
NoConn == [present |-> FALSE]

\* Response headers of a refresh GET.
RefreshHeaders ==
    [cas_url : {Absent, "cas"},
     access_token : {Absent, "tok1", "tok2"},
     expiration : {ExpAbsent, ExpNotU64} \cup ExpVals]

\* What a refresh GET can come back with.
RefreshResponses ==
    {[status |-> "neterr", headers |-> [cas_url |-> Absent,
                                         access_token |-> Absent,
                                         expiration |-> ExpAbsent]],
     [status |-> "5xx", headers |-> [cas_url |-> "cas",
                                      access_token |-> "tok1",
                                      expiration |-> 63]]}
    \cup {[status |-> "2xx", headers |-> h] : h \in RefreshHeaders}

\* parse_xet_connection_info_from_headers
ParseConnectionInfo(h) ==
    IF \/ h.cas_url = Absent
       \/ h.access_token = Absent
       \/ h.expiration \in {ExpAbsent, ExpNotU64}
      THEN NoConn
      ELSE [present |-> TRUE,
            endpoint |-> h.cas_url,
            access_token |-> h.access_token,
            expiration_unix_epoch |-> h.expiration]

\* XetTokenManager::is_token_valid
IsTokenValid(cache, now) ==
    /\ cache.present
    /\ cache.info.expiration_unix_epoch > now + TOKEN_MARGIN_S

ServedFromCacheMutant(cache, route, now) == IsTokenValid(cache, now)

\* The early return of refresh_xet_connection_info.
ServedFromCache(cache, route, now) ==
    /\ IsTokenValid(cache, now)
    /\ cache.route = route

RefreshOutcomeMutant(cache, route, resp) ==
    LET conn == IF resp.status = "2xx" THEN ParseConnectionInfo(resp.headers)
                ELSE NoConn
    IN  [conn |-> conn,
         cache |-> IF conn.present
                     THEN [present |-> TRUE, info |-> conn, route |-> route]
                     ELSE NoConn]

\* The rest of refresh_xet_connection_info once the GET has come back:
\* [conn, cache], conn = NoConn standing for the Err return.
RefreshOutcome(cache, route, resp) ==
    LET conn == IF resp.status = "2xx" THEN ParseConnectionInfo(resp.headers)
                ELSE NoConn
    IN  [conn |-> conn,
         cache |-> IF conn.present
                     THEN [present |-> TRUE, info |-> conn, route |-> route]
                     ELSE cache]

\* tokio::sync::Mutex::lock().await completes only while no guard is alive.
MutexFreeMutant(lock) == TRUE
MutexFree(lock) == lock = 0

TokenIdle ==
    /\ tmCache = NoConn
    /\ tmLock = 0
    /\ tmNow = 0
    /\ tmGets = [r \in Routes |-> 0]
    /\ tmCalls = 0
    /\ tmFailed = FALSE
    /\ tmObtained = {}
    /\ qPc = [c \in Callers |-> "idle"]
    /\ qRoute = [c \in Callers |-> "routeA"]
    /\ qResult = [c \in Callers |-> "none"]
    /\ qConn = [c \in Callers |-> NoConn]
    /\ qWaited = [c \in Callers |-> FALSE]

\* A task reaches `self.xet_token_manager.lock().await`.
QCall(c, route) ==
    /\ qPc[c] = "idle"
    /\ tmCalls < MaxCalls
    /\ tmCalls' = tmCalls + 1
    /\ qPc' = [qPc EXCEPT ![c] = "waiting"]
    /\ qRoute' = [qRoute EXCEPT ![c] = route]
    /\ qWaited' = [qWaited EXCEPT ![c] = (tmLock # 0)]
    /\ UNCHANGED <<tmCache, tmLock, tmNow, tmGets, tmFailed, tmObtained,
                   qResult, qConn>>

\* The guard is obtained and refresh_xet_connection_info runs up to its
\* first await: either the cached connection is returned (and the guard
\* dropped) or the GET is sent with the guard held.
QLock(c) ==
    /\ qPc[c] = "waiting"
    /\ MutexFree(tmLock)
    /\ IF ServedFromCache(tmCache, qRoute[c], tmNow)
         THEN /\ qPc' = [qPc EXCEPT ![c] = "done"]
              /\ qResult' = [qResult EXCEPT ![c] = "cached"]
              /\ qConn' = [qConn EXCEPT ![c] = tmCache.info]
              /\ UNCHANGED <<tmLock, tmGets>>
         ELSE /\ qPc' = [qPc EXCEPT ![c] = "fetching"]
              /\ tmLock' = c
              /\ tmGets' = [tmGets EXCEPT ![qRoute[c]] = @ + 1]
              /\ UNCHANGED <<qResult, qConn>>
    /\ UNCHANGED <<tmCache, tmNow, tmCalls, tmFailed, tmObtained, qRoute,
                   qWaited>>

\* The GET comes back; the result is parsed and cached, the guard dropped.
QResponse(c, resp) ==
    /\ qPc[c] = "fetching"
    /\ LET out == RefreshOutcome(tmCache, qRoute[c], resp)
       IN  /\ tmCache' = out.cache
           /\ qConn' = [qConn EXCEPT ![c] = out.conn]
           /\ qResult' = [qResult EXCEPT ![c] =
                             IF out.conn.present THEN "fetched"
                             ELSE IF resp.status = "neterr" THEN "err_send"
                             ELSE IF resp.status = "5xx" THEN "err_status"
                             ELSE "err_headers"]
           /\ tmFailed' = (tmFailed \/ ~out.conn.present)
           /\ tmObtained' = IF out.conn.present
                              THEN tmObtained \cup
                                   {out.conn.expiration_unix_epoch}
                              ELSE tmObtained
    /\ tmLock' = 0
    /\ qPc' = [qPc EXCEPT ![c] = "done"]
    /\ UNCHANGED <<tmNow, tmGets, tmCalls, qRoute, qWaited>>

\* The caller goes on with the result and may come back later.
QReturn(c) ==
    /\ qPc[c] = "done"
    /\ tmCalls < MaxCalls
    /\ qPc' = [qPc EXCEPT ![c] = "idle"]
    /\ qResult' = [qResult EXCEPT ![c] = "none"]
    /\ qConn' = [qConn EXCEPT ![c] = NoConn]
    /\ qWaited' = [qWaited EXCEPT ![c] = FALSE]
    /\ UNCHANGED <<tmCache, tmLock, tmNow, tmGets, tmCalls, tmFailed,
                   tmObtained, qRoute>>

\* A second passes.
QTick ==
    /\ tmNow < MaxNow
    /\ tmNow' = tmNow + 1
    /\ UNCHANGED <<tmCache, tmLock, tmGets, tmCalls, tmFailed, tmObtained,
                   qPc, qRoute, qResult, qConn, qWaited,
          fSize, opMode, opPc, opResult, retCode, outWritten, cfgMaxConc,
          cfgDedup, hasProgress, nFiles, reqFile, cancel, everCancel, disk, stale,
          initDisk, listSent, permits, firstErr, tPc, tRes, tHow, tNet, tGot,
          tLen, tXetErr, callPc, callArgs, callRet>>

-----------------------------------------------------------------------------
(* HfAdapter::download_file_with_cancel, download_snapshot and             *)
(* download_file_with_info (hf_adapter.rs), called through ffi.rs.         *)
(* A file's bytes are counted in chunks; the destination holds a prefix of *)
(* the server's body, so its content is given by its length.               *)

MaxConcurrent == 2       \* largest configured max_concurrent
Missing == -1            \* no file at the destination
XET_OK == 0
XET_INVALID_CONFIG == 1
XET_NOT_FOUND == 4
XET_CANCELLED == 7
XET_UNKNOWN == 99

\* The repositories listed: descriptor sizes 2, 0, 1, ... and 1, 2, 1, ...
Repositories ==
    {[f \in FileIds |-> (f + 1) % 3], [f \in FileIds |-> ((f - 1) % 2) + 1]}

\* file_info.size
FileSize(f) == fSize[f]

\* Length of the content the task was served for the file.
BodyLen(f) == tLen[f]

\* Lengths the body behind the resolve URL can have: the listed size, or the
\* length of content that is not what the listing described.
BodyLens(f) == {FileSize(f), IF FileSize(f) = 0 THEN 1 ELSE FileSize(f) - 1}

\* The refresh route the HEAD headers of a file name.
RouteOf(f) == "routeA"

\* filtered_files.iter().map(|f| f.size).sum()
RECURSIVE TotalBytes(_)
TotalBytes(n) == IF n = 0 THEN 0 ELSE FileSize(n) + TotalBytes(n - 1)

\* self.max_concurrent.max(1).min(filtered_files.len().max(1))
SnapshotPermitsMutant(mc, n) == Max(n, 1)
SnapshotPermits(mc, n) == Min(Max(mc, 1), Max(n, 1))

\* metadata.len() == file_info.size
CacheHitNonEmpty(len, size) == len # Missing /\ len = size /\ size > 0
CacheHitInverted(len, size) == len # Missing /\ len # size
CacheHit(len, size) == len # Missing /\ len = size

\* The Err arm of `match self.download_with_xet(..)`: log and fall through.
XetErrArmMutant(err) == "return"
XetErrArm(err) == "fallthrough"

EnterDedupMutant(xet, dedup) == xet

\* `if let Some(xet_data) = xet_file_data { if self.enable_dedup { .. } }`
EnterDedup(xet, dedup) == xet /\ dedup

\* The chunk loop: poll the token, then write.
ChunkStepMutant(cancelled) == "write"
ChunkStep(cancelled) == IF cancelled THEN "return" ELSE "write"

\* collect() on the buffer_unordered stream completes when every future has.
CollectedMutant(pcs, res, n) ==
    \/ \A t \in 1..n : pcs[t] = "done"
    \/ \E t \in 1..n : pcs[t] = "done" /\ res[t] # "ok"
Collected(pcs, res, n) == \A t \in 1..n : pcs[t] = "done"

\* XetError::from_anyhow
FromAnyhow(err) == XET_UNKNOWN

Running == {"check", "head", "refresh", "recon", "get", "stream", "write"}
InFlight == {t \in FileIds : tPc[t] \in Running}
NoErr == [task |-> 0, err |-> "none"]

\* Progress calls are made only when the operation has a tracker.
Tracked(st) == IF hasProgress THEN st ELSE pOp

DlIdle ==
    /\ fSize = [f \in FileIds |-> 0]
    /\ opMode = "file"
    /\ opPc = "done"
    /\ opResult = "none"
    /\ retCode = -1
    /\ outWritten = FALSE
    /\ cfgMaxConc = 1
    /\ cfgDedup = FALSE
    /\ hasProgress = FALSE
    /\ nFiles = 0
    /\ reqFile = 1
    /\ cancel = FALSE
    /\ everCancel = FALSE
    /\ disk = [f \in FileIds |-> Missing]
    /\ stale = {}
    /\ initDisk = [f \in FileIds |-> Missing]
    /\ listSent = 0
    /\ permits = 0
    /\ firstErr = NoErr
    /\ tPc = [f \in FileIds |-> "pending"]
    /\ tRes = [f \in FileIds |-> "none"]
    /\ tHow = [f \in FileIds |-> "none"]
    /\ tNet = [f \in FileIds |-> {}]
    /\ tGot = [f \in FileIds |-> 0]
    /\ tLen = [f \in FileIds |-> 0]
    /\ tXetErr = [f \in FileIds |-> FALSE]

\* What can be at a destination when the call starts: nothing, a file of the
\* descriptor's size (the server's bytes, or other bytes of that length), or
\* a body cut short.
DiskStates(f) == {Missing, FileSize(f)} \cup
                 (IF FileSize(f) > 0 THEN {FileSize(f) - 1} ELSE {})

InitDownload ==
    /\ fSize \in Repositories
    /\ opMode \in {"file", "snapshot"}
    /\ opPc = "created"
    /\ opResult = "none"
    /\ retCode = -1
    /\ outWritten = FALSE
    /\ cfgMaxConc \in 0..MaxConcurrent
    /\ cfgDedup \in BOOLEAN
    /\ hasProgress \in BOOLEAN
    /\ nFiles \in 0..MaxFiles
    /\ reqFile \in FileIds
    /\ opMode = "snapshot" => reqFile = 1
    /\ opMode = "file" => cfgMaxConc = 1
    /\ cancel = FALSE
    /\ everCancel = FALSE
    /\ disk \in [FileIds -> {Missing} \cup (0..2)]
    /\ \A f \in FileIds : disk[f] \in DiskStates(f)
    /\ \A f \in FileIds : f > nFiles => disk[f] = Missing
    /\ stale \in SUBSET {f \in FileIds : FileSize(f) > 0 /\ disk[f] = FileSize(f)}
    /\ initDisk = disk
    /\ listSent = 0
    /\ permits = 0
    /\ firstErr = NoErr
    /\ tPc = [f \in FileIds |-> "pending"]
    /\ tRes = [f \in FileIds |-> "none"]
    /\ tHow = [f \in FileIds |-> "none"]
    /\ tNet = [f \in FileIds |-> {}]
    /\ tGot = [f \in FileIds |-> 0]
    /\ tLen = [f \in FileIds |-> 0]
    /\ tXetErr = [f \in FileIds |-> FALSE]

\* The caller's token changes its answer.
CancelFlip ==
    /\ opPc # "done"
    /\ cancel' = ~cancel
    /\ everCancel' = TRUE
    /\ UNCHANGED <<opMode, opPc, opResult, retCode, outWritten, cfgMaxConc,
                   cfgDedup, hasProgress, nFiles, reqFile, disk, stale, initDisk,
                   listSent, permits, firstErr, tPc, tRes, tHow, tNet, tGot, tLen,
                   tXetErr>>
    /\ UNCHANGED <<pOp, pClock, tmCache, tmGets>>

\* A task's future resolves: the permit guard is dropped and, in a snapshot,
\* the result joins the collected results in completion order.
\* Returns the primed task variables for task t ending with res.
TaskEnds(t, res, how) ==
    /\ tPc' = [tPc EXCEPT ![t] = "done"]
    /\ tRes' = [tRes EXCEPT ![t] = res]
    /\ tHow' = [tHow EXCEPT ![t] = how]
    /\ permits' = IF opMode = "snapshot" THEN permits + 1 ELSE permits
    /\ firstErr' = IF res # "ok" /\ firstErr = NoErr
                     THEN [task |-> t, err |-> res] ELSE firstErr

FallbackMutant(t, net) ==
    /\ tPc' = [tPc EXCEPT ![t] = "get"]
    /\ tNet' = [tNet EXCEPT ![t] = net \cup {"get"}]
    /\ UNCHANGED <<tRes, tHow, permits, firstErr>>

\* Line 447 onwards: the poll before the plain GET, then the GET is sent.
\* net is the set of requests the task has issued up to here.
Fallback(t, net) ==
    IF cancel
      THEN /\ TaskEnds(t, "cancelled", "none")
           /\ tNet' = [tNet EXCEPT ![t] = net]
      ELSE /\ tPc' = [tPc EXCEPT ![t] = "get"]
           /\ tNet' = [tNet EXCEPT ![t] = net \cup {"get"}]
           /\ UNCHANGED <<tRes, tHow, permits, firstErr>>

\* download_with_xet returned Err(err).
XetFailed(t, err, net) ==
    /\ tXetErr' = [tXetErr EXCEPT ![t] = TRUE]
    /\ IF XetErrArm(err) = "return"
         THEN /\ TaskEnds(t, err, "none")
              /\ tNet' = [tNet EXCEPT ![t] = net]
         ELSE Fallback(t, net)

\* The poll at the entry of download_file_with_info; the task then awaits
\* create_dir_all and the destination's metadata.
Entry(t) ==
    IF cancel
      THEN TaskEnds(t, "cancelled", "none")
      ELSE /\ tPc' = [tPc EXCEPT ![t] = "check"]
           /\ UNCHANGED <<tRes, tHow, permits, firstErr>>

\* xet_download_file / xet_download_snapshot up to the listing request:
\* set_phase(Scanning, true) and the tree GET.
DlStart ==
    /\ opPc = "created"
    /\ opPc' = "listing"
    /\ listSent' = listSent + 1
    /\ pOp' = Tracked(SetPhase(pOp, "Scanning", TRUE, pClock))
    /\ UNCHANGED <<opMode, opResult, retCode, outWritten, cfgMaxConc,
                   cfgDedup, hasProgress, nFiles, reqFile, cancel, everCancel,
                   disk, stale, initDisk, permits, firstErr, tPc, tRes, tHow, tNet,
                   tGot, tLen, tXetErr>>
    /\ UNCHANGED <<pClock, tmCache, tmGets>>

\* The call returns to C: a null error and the out-parameter, or
\* XetError::from_anyhow(e).
Returns(res) ==
    /\ opPc' = "done"
    /\ opResult' = res
    /\ retCode' = IF res = "ok" THEN XET_OK ELSE FromAnyhow(res)
    /\ outWritten' = (res = "ok")

\* Time passes, long enough for the throttle to run out.  The clock is read
\* only by the unforced updates of an operation with a progress handle, so
\* it is advanced while a task is about to make one.
DlTick ==
    /\ opPc = "running"
    /\ hasProgress
    /\ \E t \in FileIds : tPc[t] \in {"write", "recon"}
    /\ pClock + pOp.throttle <= MaxClock
    /\ pClock' = pClock + pOp.throttle
    /\ UNCHANGED pOp
    /\ UNCHANGED dlVars
    /\ UNCHANGED <<tmCache, tmGets>>

\* list_files comes back, in download_file_with_cancel.
DlListedFile(ok) ==
    /\ opPc = "listing"
    /\ opMode = "file"
    /\ IF ~ok
         THEN /\ Returns("list_failed")
              /\ UNCHANGED <<pOp, permits, firstErr, tPc, tRes, tHow, tNet>>
         ELSE IF reqFile > nFiles
           THEN /\ Returns("not_found")
                /\ UNCHANGED <<pOp, permits, firstErr, tPc, tRes, tHow, tNet>>
           ELSE /\ opPc' = "running"
                /\ pOp' = Tracked(UpdateFileAbsolute(
                       EnsureFileEntry(
                         SetPhase(SetTotalHint(pOp, 1, FileSize(reqFile)),
                                  "Downloading", TRUE, pClock),
                         reqFile, FileSize(reqFile)),
                       reqFile, 0, FileSize(reqFile), TRUE, pClock))
                /\ Entry(reqFile)
                /\ UNCHANGED <<opResult, retCode, outWritten, tNet>>
    /\ UNCHANGED <<opMode, cfgMaxConc, cfgDedup, hasProgress, nFiles, reqFile,
                   cancel, everCancel, disk, stale, initDisk, listSent, tGot, tLen,
                   tXetErr>>
    /\ UNCHANGED <<pClock, tmCache, tmGets>>

\* list_files comes back, in download_snapshot: totals, phase, directory,
\* semaphore.
DlListedSnapshot(ok) ==
    /\ opPc = "listing"
    /\ opMode = "snapshot"
    /\ IF ~ok
         THEN /\ Returns("list_failed")
              /\ UNCHANGED <<pOp, permits>>
         ELSE /\ opPc' = "running"
              /\ pOp' = Tracked(SetPhase(
                           SetTotalHint(pOp, nFiles, TotalBytes(nFiles)),
                           "Downloading", TRUE, pClock))
              /\ permits' = SnapshotPermits(cfgMaxConc, nFiles)
              /\ UNCHANGED <<opResult, retCode, outWritten>>
    /\ UNCHANGED <<opMode, cfgMaxConc, cfgDedup, hasProgress, nFiles, reqFile,
                   cancel, everCancel, disk, stale, initDisk, listSent, firstErr,
                   tPc, tRes, tHow, tNet, tGot,
          tLen, tXetErr>>
    /\ UNCHANGED <<pClock, tmCache, tmGets>>

\* buffer_unordered polls the next future: it takes a permit, polls the
\* token and enters download_file_with_info.
TaskStart(t) ==
    /\ opPc = "running"
    /\ opMode = "snapshot"
    /\ t \in 1..nFiles
    /\ tPc[t] = "pending"
    /\ \A u \in 1..(t - 1) : tPc[u] # "pending"
    /\ Cardinality(InFlight) < SnapshotPermits(cfgMaxConc, nFiles)
    /\ permits > 0
    /\ IF cancel
         THEN /\ tPc' = [tPc EXCEPT ![t] = "done"]
              /\ tRes' = [tRes EXCEPT ![t] = "cancelled"]
              /\ firstErr' = IF firstErr = NoErr
                               THEN [task |-> t, err |-> "cancelled"]
                               ELSE firstErr
              /\ UNCHANGED permits
         ELSE /\ permits' = permits - 1
              /\ tPc' = [tPc EXCEPT ![t] = "check"]
              /\ UNCHANGED <<tRes, firstErr>>
    /\ UNCHANGED <<opMode, opPc, opResult, retCode, outWritten, cfgMaxConc,
                   cfgDedup, hasProgress, nFiles, reqFile, cancel, everCancel,
                   disk, stale, initDisk, listSent, tHow, tNet, tGot,
          tLen, tXetErr>>
    /\ UNCHANGED <<pOp, pClock, tmCache, tmGets>>

\* The cache check; on a miss the HEAD request is sent.
TaskCheck(t) ==
    /\ tPc[t] = "check"
    /\ IF CacheHit(disk[t], FileSize(t))
         THEN /\ TaskEnds(t, "ok", "cache")
              /\ pOp' = Tracked(UpdateFileAbsolute(
                           EnsureFileEntry(pOp, t, FileSize(t)),
                           t, FileSize(t), FileSize(t), TRUE, pClock))
              /\ UNCHANGED tNet
         ELSE /\ tPc' = [tPc EXCEPT ![t] = "head"]
              /\ tNet' = [tNet EXCEPT ![t] = @ \cup {"head"}]
              /\ UNCHANGED <<tRes, tHow, permits, firstErr, pOp>>
    /\ UNCHANGED <<opMode, opPc, opResult, retCode, outWritten, cfgMaxConc,
                   cfgDedup, hasProgress, nFiles, reqFile, cancel, everCancel,
                   disk, stale, initDisk, listSent, tGot, tLen, tXetErr>>
    /\ UNCHANGED <<pClock, tmCache, tmGets>>

\* send_with_retry for the HEAD returns.  With XET headers and dedup enabled
\* download_with_xet is entered: its poll, then the token manager's lock.
TaskHead(t, ok, xet) ==
    /\ tPc[t] = "head"
    /\ IF ~ok
         THEN /\ TaskEnds(t, "head_failed", "none")
              /\ UNCHANGED <<tNet, tXetErr>>
         ELSE IF EnterDedup(xet, cfgDedup)
           THEN IF cancel
                  THEN XetFailed(t, "cancelled", tNet[t])
                  ELSE /\ tPc' = [tPc EXCEPT ![t] = "refresh"]
                       /\ UNCHANGED <<tRes, tHow, permits, firstErr, tNet,
                                      tXetErr>>
           ELSE /\ Fallback(t, tNet[t])
                /\ UNCHANGED tXetErr
    /\ UNCHANGED <<opMode, opPc, opResult, retCode, outWritten, cfgMaxConc,
                   cfgDedup, hasProgress, nFiles, reqFile, cancel, everCancel,
                   disk, stale, initDisk, listSent, tGot, tLen>>
    /\ UNCHANGED <<pOp, pClock, tmCache, tmGets>>

\* Responses to the refresh GET that a download can see.
DlRefreshResponses ==
    {r \in RefreshResponses :
        \/ r.status = "5xx"
        \/ /\ r.status = "2xx"
           /\ r.headers.cas_url = "cas"
           /\ r.headers.access_token = "tok1"
           /\ r.headers.expiration \in {ExpAbsent, 60, 63}}

\* The locked section of download_with_xet: refresh_xet_connection_info,
\* then XetDownloader::new, ensure_file_entry and the poll before the
\* reconstruction starts.
TaskRefresh(t, resp, built) ==
    /\ tPc[t] = "refresh"
    /\ LET cached == ServedFromCache(tmCache, RouteOf(t), tmNow)
           out == RefreshOutcome(tmCache, RouteOf(t), resp)
           ok == cached \/ out.conn.present
           net == IF cached THEN tNet[t] ELSE tNet[t] \cup {"refresh"}
       IN  /\ tmCache' = IF cached THEN tmCache ELSE out.cache
           /\ tmGets' = IF cached THEN tmGets
                        ELSE [tmGets EXCEPT ![RouteOf(t)] = @ + 1]
           /\ IF ~ok \/ ~built
                THEN /\ XetFailed(t, "xet_failed", net)
                     /\ UNCHANGED pOp
                ELSE /\ pOp' = Tracked(EnsureFileEntry(pOp, t, FileSize(t)))
                     /\ IF cancel
                          THEN XetFailed(t, "cancelled", net)
                          ELSE /\ tPc' = [tPc EXCEPT ![t] = "recon"]
                               /\ tNet' = [tNet EXCEPT ![t] = net]
                               /\ UNCHANGED <<tRes, tHow, permits, firstErr,
                                              tXetErr>>
    /\ UNCHANGED <<opMode, opPc, opResult, retCode, outWritten, cfgMaxConc,
                   cfgDedup, hasProgress, nFiles, reqFile, cancel, everCancel,
                   disk, stale, initDisk, listSent, tGot, tLen>>
    /\ UNCHANGED pClock

\* XetDownloader::download_file returns.  k is the number of bytes the
\* reconstruction reported through the tracking updater and wrote before it
\* returned, NoReport for none.
NoReport == -1
TaskRecon(t, ok, k) ==
    /\ tPc[t] = "recon"
    /\ k \in {NoReport} \cup (0..FileSize(t))
    /\ ok => k \in {NoReport, FileSize(t)}
    /\ LET st == IF k = NoReport THEN pOp
                 ELSE ApplyTrackingUpdate(pOp,
                        TrackingUpdate(FileSize(t), k, t, k, FileSize(t)),
                        pClock)
       IN  IF ok
             THEN /\ disk' = [disk EXCEPT ![t] = FileSize(t)]
                  /\ stale' = stale \ {t}
                  /\ pOp' = Tracked(UpdateFileAbsolute(st, t, FileSize(t),
                                       FileSize(t), TRUE, pClock))
                  /\ tLen' = [tLen EXCEPT ![t] = FileSize(t)]
                  /\ TaskEnds(t, "ok", "xet")
                  /\ UNCHANGED <<tNet, tXetErr>>
             ELSE /\ disk' = [disk EXCEPT ![t] = IF k = NoReport THEN @ ELSE k]
                  /\ stale' = IF k = NoReport THEN stale ELSE stale \ {t}
                  /\ pOp' = Tracked(st)
                  /\ XetFailed(t, "xet_failed", tNet[t])
                  /\ UNCHANGED tLen
    /\ UNCHANGED <<opMode, opPc, opResult, retCode, outWritten, cfgMaxConc,
                   cfgDedup, hasProgress, nFiles, reqFile, cancel, everCancel,
                   initDisk, listSent, tGot>>
    /\ UNCHANGED <<pClock, tmCache, tmGets>>

\* send_with_retry for the plain GET returns a response whose body has len
\* bytes (its Content-Length); on success the entry is ensured with that
\* length and File::create truncates the destination.
TaskGet(t, ok, len) ==
    /\ tPc[t] = "get"
    /\ len \in BodyLens(t)
    /\ IF ~ok
         THEN /\ TaskEnds(t, "get_failed", "none")
              /\ UNCHANGED <<disk, stale, pOp, tGot, tLen>>
         ELSE /\ tPc' = [tPc EXCEPT ![t] = "stream"]
              /\ disk' = [disk EXCEPT ![t] = 0]
              /\ stale' = stale \ {t}
              /\ tGot' = [tGot EXCEPT ![t] = 0]
              /\ tLen' = [tLen EXCEPT ![t] = len]
              /\ pOp' = Tracked(EnsureFileEntry(pOp, t, len))
              /\ UNCHANGED <<tRes, tHow, permits, firstErr>>
    /\ UNCHANGED <<opMode, opPc, opResult, retCode, outWritten, cfgMaxConc,
                   cfgDedup, hasProgress, nFiles, reqFile, cancel, everCancel,
                   initDisk, listSent, tNet, tXetErr>>
    /\ UNCHANGED <<pClock, tmCache, tmGets>>

\* One turn of the chunk loop up to write_all: the stream yields a chunk or
\* an error; a chunk is counted and the token polled.
TaskChunk(t, ok) ==
    /\ tPc[t] = "stream"
    /\ tGot[t] < BodyLen(t)
    /\ IF ~ok
         THEN /\ TaskEnds(t, "stream_failed", "none")
              /\ UNCHANGED tGot
         ELSE /\ tGot' = [tGot EXCEPT ![t] = @ + 1]
              /\ IF ChunkStep(cancel) = "return"
                   THEN TaskEnds(t, "cancelled", "none")
                   ELSE /\ tPc' = [tPc EXCEPT ![t] = "write"]
                        /\ UNCHANGED <<tRes, tHow, permits, firstErr>>
    /\ UNCHANGED <<opMode, opPc, opResult, retCode, outWritten, cfgMaxConc,
                   cfgDedup, hasProgress, nFiles, reqFile, cancel, everCancel,
                   disk, stale, initDisk, listSent, tNet, tLen, tXetErr>>
    /\ UNCHANGED <<pOp, pClock, tmCache, tmGets>>

TaskWriteMutant(t) ==
    /\ tPc[t] = "write"
    /\ tPc' = [tPc EXCEPT ![t] = "stream"]
    /\ disk' = disk
    /\ pOp' = Tracked(UpdateFileAbsolute(pOp, t, tGot[t], BodyLen(t), FALSE,
                                         pClock))
    /\ UNCHANGED <<opMode, opPc, opResult, retCode, outWritten, cfgMaxConc,
                   cfgDedup, hasProgress, nFiles, reqFile, cancel, everCancel,
                   stale, initDisk, listSent, permits, firstErr, tRes, tHow,
                   tNet, tGot, tLen, tXetErr>>
    /\ UNCHANGED <<pClock, tmCache, tmGets>>

\* write_all completes and the unforced progress update follows.
TaskWrite(t) ==
    /\ tPc[t] = "write"
    /\ tPc' = [tPc EXCEPT ![t] = "stream"]
    /\ disk' = [disk EXCEPT ![t] = @ + 1]
    /\ pOp' = Tracked(UpdateFileAbsolute(pOp, t, tGot[t], BodyLen(t), FALSE,
                                         pClock))
    /\ UNCHANGED <<opMode, opPc, opResult, retCode, outWritten, cfgMaxConc,
                   cfgDedup, hasProgress, nFiles, reqFile, cancel, everCancel,
                   stale, initDisk, listSent, permits, firstErr, tRes, tHow,
                   tNet, tGot, tLen, tXetErr>>
    /\ UNCHANGED <<pClock, tmCache, tmGets>>

\* The stream ends: flush, the forced final update, Ok(destination).
TaskStreamEnd(t) ==
    /\ tPc[t] = "stream"
    /\ tGot[t] = BodyLen(t)
    /\ TaskEnds(t, "ok", "http")
    /\ pOp' = Tracked(UpdateFileAbsolute(pOp, t, tGot[t], BodyLen(t), TRUE,
                                         pClock))
    /\ UNCHANGED <<opMode, opPc, opResult, retCode, outWritten, cfgMaxConc,
                   cfgDedup, hasProgress, nFiles, reqFile, cancel, everCancel,
                   disk, stale, initDisk, listSent, tNet, tGot, tLen, tXetErr>>
    /\ UNCHANGED <<pClock, tmCache, tmGets>>

\* download_file_with_cancel after download_file_with_info has returned.
DlFinishFile ==
    /\ opPc = "running"
    /\ opMode = "file"
    /\ tPc[reqFile] = "done"
    /\ Returns(tRes[reqFile])
    /\ pOp' = IF tRes[reqFile] = "ok" THEN Tracked(Finalize(pOp, pClock))
              ELSE pOp
    /\ UNCHANGED <<opMode, cfgMaxConc, cfgDedup, hasProgress, nFiles, reqFile,
                   cancel, everCancel, disk, stale, initDisk, listSent, permits,
                   firstErr, tPc, tRes, tHow, tNet, tGot,
          tLen, tXetErr>>
    /\ UNCHANGED <<pClock, tmCache, tmGets>>

\* download_snapshot after collect(): the first Err in the results, else
\* finalize.
DlFinishSnapshot ==
    /\ opPc = "running"
    /\ opMode = "snapshot"
    /\ Collected(tPc, tRes, nFiles)
    /\ Returns(IF firstErr = NoErr THEN "ok" ELSE firstErr.err)
    /\ pOp' = IF firstErr = NoErr THEN Tracked(Finalize(pOp, pClock)) ELSE pOp
    /\ UNCHANGED <<opMode, cfgMaxConc, cfgDedup, hasProgress, nFiles, reqFile,
                   cancel, everCancel, disk, stale, initDisk, listSent, permits,
                   firstErr, tPc, tRes, tHow, tNet, tGot,
          tLen, tXetErr>>
    /\ UNCHANGED <<pClock, tmCache, tmGets>>

-----------------------------------------------------------------------------
(* Single function calls: the Link header parser, destination resolution, *)
(* the tree listing, the argument checks of the FFI entry points          *)

CallIdle ==
    /\ callPc = "idle"
    /\ callArgs = <<>>
    /\ callRet = <<>>

None == [some |-> FALSE, val |-> <<>>]
Some(v) == [some |-> TRUE, val |-> v]

\* A slice whose begin is past its end aborts the thread.
SlicePanic == [some |-> FALSE, val |-> <<"panic">>]

(* parse_link_header_for_xet_auth.  A header value is a sequence of        *)
(* characters; the three rel attributes are one token each.                *)

MaxEntries == 2
MaxUrlLen == 2

RelXetAuthDq == "rel=\"xet-auth\""
RelXetAuthSq == "rel='xet-auth'"
RelNext == "rel=\"next\""

UrlChars == {"a", ","}
Urls == UNION {[1..n -> UrlChars] : n \in 1..MaxUrlLen}
LinkEntries == [url : Urls, rel : {RelXetAuthDq, RelXetAuthSq, RelNext}]
LinkHeaders == UNION {[1..n -> LinkEntries] : n \in 0..MaxEntries}

\* <url>; rel="relation"
RenderEntry(e) == <<"<">> \o e.url \o <<">", ";", " ", e.rel>>

\* <url>; rel="relation", <url2>; rel="relation2"
RECURSIVE RenderLink(_)
RenderLink(es) ==
    IF es = <<>> THEN <<>>
    ELSE IF Len(es) = 1 THEN RenderEntry(es[1])
    ELSE RenderEntry(es[1]) \o <<",", " ">> \o RenderLink(Tail(es))

Contains(str, tok) == \E i \in 1..Len(str) : str[i] = tok

\* str::find: the position of the first occurrence, counted from 1; 0 for None
Find(str, tok) ==
    IF Contains(str, tok)
    THEN CHOOSE i \in 1..Len(str) :
            str[i] = tok /\ \A j \in 1..(i - 1) : str[j] # tok
    ELSE 0

\* str::split: the pieces between the separators, empty pieces included
RECURSIVE Split(_, _)
Split(str, sep) ==
    IF ~Contains(str, sep) THEN <<str>>
    ELSE <<SubSeq(str, 1, Find(str, sep) - 1)>>
            \o Split(SubSeq(str, Find(str, sep) + 1, Len(str)), sep)

RECURSIVE TrimStart(_)
TrimStart(str) ==
    IF str # <<>> /\ Head(str) = " " THEN TrimStart(Tail(str)) ELSE str

RECURSIVE TrimEnd(_)
TrimEnd(str) ==
    IF str # <<>> /\ str[Len(str)] = " "
    THEN TrimEnd(SubSeq(str, 1, Len(str) - 1))
    ELSE str

Trim(str) == TrimEnd(TrimStart(str))

SplitLink(link_str) == Split(link_str, ",")

\* The body of the loop for the parts still to visit.
RECURSIVE ScanLinkParts(_)
ScanLinkParts(parts) ==
    IF parts = <<>> THEN None
    ELSE LET link_part == Trim(Head(parts))
             url_start == Find(link_part, "<")
             url_end == Find(link_part, ">")
         IN  IF /\ Contains(link_part, RelXetAuthDq)
                    \/ Contains(link_part, RelXetAuthSq)
                /\ url_start # 0
                /\ url_end # 0
             THEN IF url_end < url_start
                  THEN SlicePanic
                  ELSE Some(SubSeq(link_part, url_start + 1, url_end - 1))
             ELSE ScanLinkParts(Tail(parts))

ParseLinkHeaderForXetAuth(link_str) == ScanLinkParts(SplitLink(link_str))

InitLinkOnly ==
    /\ callPc = "call"
    /\ callArgs \in LinkHeaders
    /\ callRet = <<>>

LinkParse ==
    /\ callPc = "call"
    /\ callPc' = "returned"
    /\ callRet' = ParseLinkHeaderForXetAuth(RenderLink(callArgs))
    /\ UNCHANGED callArgs

(* parse_xet_file_data_from_headers.  callArgs is the header map of the  *)
(* HEAD response: x-xet-hash, link and x-xet-refresh-route.  A link value  *)
(* is absent, not readable as a string ("opaque"), or a string.            *)

XetHeaderMaps ==
    [hash : {None, Some(<<"h">>)},
     link : {[kind |-> "absent", entries |-> <<>>],
             [kind |-> "opaque", entries |-> <<>>]}
            \cup {[kind |-> "str", entries |-> es] : es \in LinkHeaders},
     refresh_route : {None, Some(<<"r">>)}]

ParseXetFileDataFromHeaders(headers) ==
    IF ~headers.hash.some THEN None
    ELSE LET refresh_route ==
                 IF headers.link.kind = "str"
                 THEN ParseLinkHeaderForXetAuth(RenderLink(headers.link.entries))
                 ELSE headers.refresh_route
         IN  IF refresh_route = SlicePanic THEN SlicePanic
             ELSE IF ~refresh_route.some THEN None
             ELSE Some([file_hash |-> headers.hash.val,
                        refresh_route |-> refresh_route.val])

InitFileDataOnly ==
    /\ callPc = "call"
    /\ callArgs \in XetHeaderMaps
    /\ callRet = <<>>

FileDataParse ==
    /\ callPc = "call"
    /\ callPc' = "returned"
    /\ callRet' = ParseXetFileDataFromHeaders(callArgs)
    /\ UNCHANGED callArgs

(* determine_destination.  Paths and names are sequences of characters.    *)

LocalDirs == {None, Some(<<"L">>), Some(<<"/", "L">>)}
CacheDirs == {None, Some(<<"/", "C">>)}
RepoIds == {<<"o", "/", "m">>, <<"m">>}
Revisions == {<<"r">>, <<"v">>}
Filenames == {<<"w">>, <<"s", "/", "w">>, <<"/", "w">>}

DestArgs ==
    [local_dir : LocalDirs, cache_dir : CacheDirs, repo_id : RepoIds,
     revision : Revisions, filename : Filenames]

\* Path::is_absolute on unix
IsAbsolute(path) == path # <<>> /\ Head(path) = "/"

\* PathBuf::push: an absolute argument replaces the path, otherwise it is
\* appended after a separator when the path does not end in one.
PathPush(path, comp) ==
    IF IsAbsolute(comp) THEN comp
    ELSE IF path # <<>> /\ path[Len(path)] # "/" THEN path \o <<"/">> \o comp
    ELSE path \o comp

\* repo_id.replace('/', "--")
RECURSIVE ReplaceSlash(_)
ReplaceSlash(str) ==
    IF str = <<>> THEN <<>>
    ELSE (IF Head(str) = "/" THEN <<"-", "-">> ELSE <<Head(str)>>)
            \o ReplaceSlash(Tail(str))

DetermineDestination(local_dir, cache_dir, repo_id, revision, filename) ==
    IF local_dir.some THEN PathPush(local_dir.val, filename)
    ELSE IF cache_dir.some
         THEN PathPush(PathPush(PathPush(cache_dir.val, ReplaceSlash(repo_id)),
                                revision), filename)
         ELSE filename

InitDestOnly ==
    /\ callPc = "call"
    /\ callArgs \in DestArgs
    /\ callRet = <<>>

DestResolve ==
    /\ callPc = "call"
    /\ callPc' = "returned"
    /\ callRet' = DetermineDestination(callArgs.local_dir, callArgs.cache_dir,
                                       callArgs.repo_id, callArgs.revision,
                                       callArgs.filename)
    /\ UNCHANGED callArgs

(* list_files: the tree response and its conversion                       *)

MaxItems == 3

ItemTypes == {"file", "directory", "commit"}

\* Vec<HfTreeItem>: every item carries type, oid, size and path.
HfTreeItems ==
    {[item_type |-> ty, oid |-> e.oid, size |-> e.size, path |-> e.path,
      xet_hash |-> x] :
        ty \in ItemTypes,
        e \in {[path |-> "README.md", oid |-> "a1", size |-> 5],
               [path |-> "sub", oid |-> "d1", size |-> 0]},
        x \in {"none", "x1"}}

TreeBodies == UNION {[1..n -> HfTreeItems] : n \in 0..MaxItems}

IsFileItemMutant(item) == item.item_type # "directory"

IsFileItem(item) == item.item_type = "file"

HfFileInfoOf(item) ==
    [path |-> item.path, hash |-> item.oid, size |-> item.size,
     xet_hash |-> item.xet_hash]

ConvertTree(tree_items) ==
    LET kept == SelectSeq(tree_items, IsFileItem)
    IN  [i \in 1..Len(kept) |-> HfFileInfoOf(kept[i])]

\* response.json() either yields the items or fails the call.
ListFiles(body, parses) ==
    IF parses THEN [ok |-> TRUE, files |-> ConvertTree(body)]
    ELSE [ok |-> FALSE, files |-> <<>>]

InitListOnly ==
    /\ callPc = "call"
    /\ callArgs \in [body : TreeBodies, parses : BOOLEAN]
    /\ callRet = <<>>

ListConvert ==
    /\ callPc = "call"
    /\ callPc' = "returned"
    /\ callRet' = ListFiles(callArgs.body, callArgs.parses)
    /\ UNCHANGED callArgs

(* One operation shared by several workers (clone_for_tasks): each call  *)
(* of emit is a locked part, then the callback outside the lock.           *)

NumWorkers == 2

InitSharedOnly ==
    /\ pOp = NewOperation(ThrottleOf(0))
    /\ pClock = 0
    /\ pCall = "none"
    /\ callPc = [w \in 1..NumWorkers |-> "idle"]
    /\ callArgs = [w \in 1..NumWorkers |-> <<>>]
    /\ callRet = <<>>

\* update_file_absolute by worker w on its own file up to drop(state): the
\* entry is updated, the throttle decided, the update built and last_emit
\* stamped under the lock.
WEmitLocked(w, completed, force) ==
    /\ callPc[w] = "idle"
    /\ pOp.cb.calls + Cardinality({v \in 1..NumWorkers : callPc[v] = "unlocked"})
          < MaxEmits
    /\ LET st == UpdateFileState(pOp, w, completed, MaxVal)
       IN  IF EmitFires(st, force, pClock)
             THEN /\ pOp' = [st EXCEPT !.last_emit = pClock]
                  /\ callPc' = [callPc EXCEPT ![w] = "unlocked"]
                  /\ callArgs' =
                       [callArgs EXCEPT ![w] = BuildUpdate(st, w, completed, MaxVal)]
             ELSE /\ pOp' = st
                  /\ UNCHANGED <<callPc, callArgs>>
    /\ UNCHANGED <<pClock, pCall, callRet>>

\* The worker enters the user callback with the update it built.
WCallbackEnter(w) ==
    /\ callPc[w] = "unlocked"
    /\ callPc' = [callPc EXCEPT ![w] = "in_callback"]
    /\ pOp' = Callback(pOp, callArgs[w])
    /\ UNCHANGED <<pClock, pCall, callArgs, callRet>>

\* The user callback returns.
WCallbackReturn(w) ==
    /\ callPc[w] = "in_callback"
    /\ callPc' = [callPc EXCEPT ![w] = "idle"]
    /\ callArgs' = [callArgs EXCEPT ![w] = <<>>]
    /\ UNCHANGED <<pOp, pClock, pCall, callRet>>

(* ProgressHandler: the registration and the operations made from it.     *)
(* callArgs is the ProgressHandlerConfig, callRet the results of the       *)
(* new_operation calls so far, callPc the latest call.                     *)

MaxOps == 2

HandlerCallbacks == {"null", "cb1", "cb2"}
HandlerUserData == {"p0", "p1"}
HandlerThrottles == {0, 50}

\* ProgressHandlerConfig::disabled
HandlerDisabled ==
    [callback |-> "null", user_data |-> "p0", throttle |-> DefaultThrottleMs]

InitHandlerOnly ==
    /\ callPc = [op |-> "new"]
    /\ callArgs = HandlerDisabled
    /\ callRet = <<>>

\* ProgressHandler::configure
HConfigure(callback, user_data, throttle_ms) ==
    /\ callPc' = [op |-> "configure", callback |-> callback,
                  user_data |-> user_data, throttle_ms |-> throttle_ms]
    /\ callArgs' = [callback |-> callback, user_data |-> user_data,
                    throttle |-> ThrottleOf(throttle_ms)]
    /\ UNCHANGED callRet

\* ProgressHandler::new_operation with OperationProgress::new: the
\* operation copies callback, user_data and throttle out of the config.
HNewOperation ==
    /\ Len(callRet) < MaxOps
    /\ callPc' = [op |-> "new_operation"]
    /\ callRet' = Append(callRet,
                         IF callArgs.callback = "null" THEN None
                         ELSE Some(callArgs))
    /\ UNCHANGED callArgs

OperationSettingsMutant(op, config) == config

\* The callback, user pointer and throttle an operation works with: its own
\* fields.
OperationSettings(op, config) == op.val

(* xet_list_files after block_on returned Ok(files): every listed path   *)
(* and hash is turned into a C string.  callArgs is the list of files,     *)
(* callRet the C files built so far, callPc the position.                  *)

MaxListed == 2
MaxStrLen == 2

\* Strings of a tree listing: JSON strings may hold U+0000.
ListedStrings ==
    UNION {[1..n -> {"a", "NUL"}] : n \in 1..MaxStrLen}

ListedFiles ==
    UNION {[1..n -> [path : ListedStrings, hash : {<<"a">>, <<"NUL">>}]] :
              n \in 0..MaxListed}

\* CString::new: an error when the bytes hold an interior NUL.
CStringNew(str) ==
    IF \E i \in 1..Len(str) : str[i] = "NUL" THEN None ELSE Some(str)

InitMarshalOnly ==
    /\ callPc = "marshal"
    /\ callArgs \in ListedFiles
    /\ callRet = [code |-> -1, c_files |-> <<>>, out_written |-> FALSE]

\* One turn of `for file in files`: unwrap() panics on an error, and no
\* catch_unwind stands between the panic and the extern "C" frame, so the
\* process aborts or the unwind runs into the caller's frames.
FfiMarshalFile ==
    /\ callPc = "marshal"
    /\ Len(callRet.c_files) < Len(callArgs)
    /\ LET file == callArgs[Len(callRet.c_files) + 1]
           path == CStringNew(file.path)
           hash == CStringNew(file.hash)
       IN  IF path.some /\ hash.some
             THEN /\ callRet' = [callRet EXCEPT
                                   !.c_files = Append(@, [path |-> path.val,
                                                          hash |-> hash.val])]
                  /\ UNCHANGED callPc
             ELSE /\ callPc' \in {"aborted", "unwound"}
                  /\ UNCHANGED callRet
    /\ UNCHANGED callArgs

\* After the loop: *out_files is written and null (no error) is returned.
FfiMarshalReturn ==
    /\ callPc = "marshal"
    /\ Len(callRet.c_files) = Len(callArgs)
    /\ callPc' = "returned"
    /\ callRet' = [callRet EXCEPT !.code = XET_OK, !.out_written = TRUE]
    /\ UNCHANGED callArgs

(* The pattern filter of download_snapshot (hf_adapter.rs 254-276).      *)
(* callArgs is the listing with the two pattern lists, callRet the files   *)
(* scheduled and the totals handed to set_total_hint.                      *)

MaxPatterns == 2

PathStrings == UNION {[1..n -> {"a", "b"}] : n \in 1..MaxStrLen}
PatternStrings == UNION {[1..n -> {"a", "b"}] : n \in 0..MaxStrLen}
PatternLists ==
    {None} \cup {Some(ps) : ps \in UNION {[1..n -> PatternStrings] : n \in 0..MaxPatterns}}
SnapshotListings ==
    UNION {[1..n -> {[path |-> p, size |-> Len(p)] : p \in PathStrings}] :
              n \in 0..MaxListed}

\* str::contains with a string pattern
StrContains(str, pat) ==
    \E i \in 0..(Len(str) - Len(pat)) : SubSeq(str, i + 1, i + Len(pat)) = pat

KeepFileMutant(path, allow, ignore) ==
    \/ allow.some /\ \E i \in 1..Len(allow.val) : StrContains(path, allow.val[i])
    \/ /\ ~allow.some
       /\ ~(ignore.some /\ \E i \in 1..Len(ignore.val) : StrContains(path, ignore.val[i]))

\* The closure given to filter().
KeepFile(path, allow, ignore) ==
    IF allow.some /\ ~\E i \in 1..Len(allow.val) : StrContains(path, allow.val[i])
      THEN FALSE
    ELSE IF ignore.some /\ \E i \in 1..Len(ignore.val) : StrContains(path, ignore.val[i])
      THEN FALSE
    ELSE TRUE

RECURSIVE FilteredFiles(_, _, _)
FilteredFiles(files, allow, ignore) ==
    IF files = <<>> THEN <<>>
    ELSE (IF KeepFile(Head(files).path, allow, ignore) THEN <<Head(files)>> ELSE <<>>)
            \o FilteredFiles(Tail(files), allow, ignore)

\* filtered_files.iter().map(|f| f.size).sum()
RECURSIVE SumSizes(_)
SumSizes(files) ==
    IF files = <<>> THEN 0 ELSE Head(files).size + SumSizes(Tail(files))

InitFilterOnly ==
    /\ callPc = "call"
    /\ callArgs \in [files : SnapshotListings, allow : PatternLists, ignore : PatternLists]
    /\ callRet = <<>>

SnapFilter ==
    /\ callPc = "call"
    /\ callPc' = "returned"
    /\ LET filtered_files ==
               FilteredFiles(callArgs.files, callArgs.allow, callArgs.ignore)
       IN  callRet' = [scheduled |-> filtered_files,
                       total_files |-> Len(filtered_files),
                       total_bytes |-> SumSizes(filtered_files)]
    /\ UNCHANGED callArgs

(* The file tasks of download_snapshot, step by step (hf_adapter.rs       *)
(* 296-315 and 347-349).  callArgs holds the token and the semaphore,      *)
(* callPc each task's position, callRet each task's trace of acquisitions  *)
(* and polls.                                                              *)

NumSnapTasks == 3

SnapTasks == 1..NumSnapTasks
SnapHolding == {"acquired", "entered", "downloading"}

InitSnapOnly ==
    /\ callPc = [t \in SnapTasks |-> "pending"]
    /\ \E mc \in 0..NumSnapTasks :
          callArgs = [cancel |-> FALSE,
                      limit |-> SnapshotPermits(mc, NumSnapTasks),
                      permits |-> SnapshotPermits(mc, NumSnapTasks)]
    /\ callRet = [t \in SnapTasks |-> <<>>]

\* The caller's token changes its answer.
SnapCancelFlip ==
    /\ \E t \in SnapTasks : callPc[t] # "done"
    /\ callArgs' = [callArgs EXCEPT !.cancel = ~@]
    /\ UNCHANGED <<callPc, callRet>>

SnapAcquireMutant(t) ==
    /\ callPc[t] = "pending"
    /\ \A u \in 1..(t - 1) : callPc[u] # "pending"
    /\ Cardinality({u \in SnapTasks : callPc[u] \in SnapHolding}) < callArgs.limit
    /\ callArgs.permits > 0
    /\ IF callArgs.cancel
         THEN /\ callPc' = [callPc EXCEPT ![t] = "done"]
              /\ callRet' = [callRet EXCEPT ![t] = Append(@, "poll_set")]
              /\ UNCHANGED callArgs
         ELSE /\ callPc' = [callPc EXCEPT ![t] = "acquired"]
              /\ callArgs' = [callArgs EXCEPT !.permits = @ - 1]
              /\ callRet' = [callRet EXCEPT
                               ![t] = Append(Append(@, "poll_clear"), "acquire")]

\* buffer_unordered(limit) polls the next future for the first time:
\* `let _permit = semaphore.acquire().await?`.
SnapAcquire(t) ==
    /\ callPc[t] = "pending"
    /\ \A u \in 1..(t - 1) : callPc[u] # "pending"
    /\ Cardinality({u \in SnapTasks : callPc[u] \in SnapHolding}) < callArgs.limit
    /\ callArgs.permits > 0
    /\ callPc' = [callPc EXCEPT ![t] = "acquired"]
    /\ callArgs' = [callArgs EXCEPT !.permits = @ - 1]
    /\ callRet' = [callRet EXCEPT ![t] = Append(@, "acquire")]

\* A poll of the token by a task that holds its permit: the one in the task
\* closure (line 300) at "acquired", the one at the head of
\* download_file_with_info (line 347) at "entered".  Returning the error
\* drops _permit.
SnapPoll(t) ==
    /\ callPc[t] \in {"acquired", "entered"}
    /\ IF callArgs.cancel
         THEN /\ callPc' = [callPc EXCEPT ![t] = "done"]
              /\ callArgs' = [callArgs EXCEPT !.permits = @ + 1]
              /\ callRet' = [callRet EXCEPT ![t] = Append(@, "poll_set")]
         ELSE /\ callPc' = [callPc EXCEPT ![t] =
                               IF @ = "acquired" THEN "entered" ELSE "downloading"]
              /\ callRet' = [callRet EXCEPT ![t] = Append(@, "poll_clear")]
              /\ UNCHANGED callArgs

SnapFinishMutant(t) ==
    /\ callPc[t] = "downloading"
    /\ callPc' = [callPc EXCEPT ![t] = "done"]
    /\ UNCHANGED <<callArgs, callRet>>

\* The rest of download_file_with_info returns and _permit is dropped.
SnapFinish(t) ==
    /\ callPc[t] = "downloading"
    /\ callPc' = [callPc EXCEPT ![t] = "done"]
    /\ callArgs' = [callArgs EXCEPT !.permits = @ + 1]
    /\ UNCHANGED callRet

\* download_snapshot from the semaphore to its return, for a filtered list
\* of n files (tasks above n are "absent"): callArgs also holds n and what
\* the call returned.
InitSnapLiveOnly ==
    \E n \in 0..NumSnapTasks, mc \in 0..NumSnapTasks :
        /\ callPc = [t \in SnapTasks |-> IF t <= n THEN "pending" ELSE "absent"]
        /\ callArgs = [cancel |-> FALSE,
                       limit |-> SnapshotPermits(mc, n),
                       permits |-> SnapshotPermits(mc, n),
                       n |-> n,
                       returned |-> "none"]
        /\ callRet = [t \in SnapTasks |-> <<>>]

\* A task whose future resolved to Err at one of its polls.
SnapCancelled(t) ==
    /\ callPc[t] = "done"
    /\ callRet[t][Len(callRet[t])] = "poll_set"

\* collect() has every result: `result?` returns the first Err, otherwise
\* finalize and Ok(local_dir).  failed says whether some
\* download_file_with_info that ran to its end returned Err.
SnapCollect(failed) ==
    /\ callArgs.returned = "none"
    /\ \A t \in SnapTasks : callPc[t] \in {"done", "absent"}
    /\ failed => \E t \in SnapTasks : callPc[t] = "done" /\ ~SnapCancelled(t)
    /\ callArgs' = [callArgs EXCEPT !.returned =
                       IF failed \/ \E t \in SnapTasks : SnapCancelled(t)
                         THEN "err" ELSE "ok"]
    /\ UNCHANGED <<callPc, callRet>>

(* What the callback is handed while one file is downloaded               *)
(* (download_file_with_options and download_file_with_progress,           *)
(* hf_adapter.rs; emit, progress.rs).  The file is file 1; callArgs holds *)
(* its size and the bytes the current path has counted; callRet holds the *)
(* number of updates handed over, the current_file_completed_bytes of the *)
(* latest update naming the file and the completed_bytes of the latest    *)
(* update.                                                                *)

PathSize == 2            \* largest file size of the single-file run

NothingDelivered ==
    [emits |-> 0, file_completed |-> NoReport, completed_bytes |-> NoReport]

\* emit as the callback sees it: when the throttle test passes, the update
\* built from the state is handed over, with the caller's `completed` as
\* current_file_completed_bytes when the emission names a file.
DeliverTo(log, st, name, completed, total, force, now) ==
    IF EmitFires(st, force, now)
    THEN [emits |-> log.emits + 1,
          file_completed |->
              IF name = NoFile THEN log.file_completed
              ELSE BuildUpdate(st, name, completed, total)
                       .current_file_completed_bytes,
          completed_bytes |->
              BuildUpdate(st, name, completed, total).completed_bytes]
    ELSE log

\* update_file_absolute together with what its emission hands over.
DvUpdateFile(completed, total, force) ==
    /\ pOp' = UpdateFileAbsolute(pOp, 1, completed, total, force, pClock)
    /\ callRet' = DeliverTo(callRet, UpdateFileState(pOp, 1, completed, total),
                            1, completed, total, force, pClock)

InitDeliverOnly ==
    /\ pOp \in {NewOperation(ThrottleOf(ms)) : ms \in HandlerThrottles}
    /\ pClock = 0
    /\ pCall = "none"
    /\ callPc = "new"
    /\ callArgs \in [size : 1..PathSize, sent : {0}]
    /\ callRet = NothingDelivered

\* download_file_with_options up to the download itself: Scanning, the
\* hint, Downloading, the file's entry and a forced update with 0 bytes.
DvBegin ==
    /\ callPc = "new"
    /\ LET s1 == SetPhase(pOp, "Scanning", TRUE, pClock)
           l1 == DeliverTo(callRet, [pOp EXCEPT !.phase = "Scanning"],
                           NoFile, 0, 0, TRUE, pClock)
           s2 == SetTotalHint(s1, 1, callArgs.size)
           s3 == SetPhase(s2, "Downloading", TRUE, pClock)
           l3 == DeliverTo(l1, [s2 EXCEPT !.phase = "Downloading"],
                           NoFile, 0, 0, TRUE, pClock)
           s4 == EnsureFileEntry(s3, 1, callArgs.size)
       IN  /\ pOp' = UpdateFileAbsolute(s4, 1, 0, callArgs.size, TRUE, pClock)
           /\ callRet' = DeliverTo(l3, UpdateFileState(s4, 1, 0, callArgs.size),
                                   1, 0, callArgs.size, TRUE, pClock)
    /\ callPc' = "check"
    /\ UNCHANGED <<pClock, pCall, callArgs>>

\* The cache test and the choice of path: a hit reports the whole file
\* with a forced update; otherwise the dedup path or the plain GET starts,
\* each with ensure_file_entry.
DvCheck(hit, xet) ==
    /\ callPc = "check"
    /\ IF hit
       THEN /\ pOp' = UpdateFileAbsolute(EnsureFileEntry(pOp, 1, callArgs.size),
                          1, callArgs.size, callArgs.size, TRUE, pClock)
            /\ callRet' = DeliverTo(callRet,
                              UpdateFileState(EnsureFileEntry(pOp, 1, callArgs.size),
                                              1, callArgs.size, callArgs.size),
                              1, callArgs.size, callArgs.size, TRUE, pClock)
            /\ callPc' = "done"
       ELSE /\ pOp' = EnsureFileEntry(pOp, 1, callArgs.size)
            /\ callRet' = callRet
            /\ callPc' = IF xet THEN "xet" ELSE "http"
    /\ UNCHANGED <<pClock, pCall, callArgs>>

\* xet-core reports the file at k bytes (register_updates), k above its
\* previous report.
DvXetReport(k) ==
    /\ callPc = "xet"
    /\ k > callArgs.sent
    /\ LET u == TrackingUpdate(callArgs.size, k, 1, k, callArgs.size)
           locked == UpdateFileState(
                         SetCompletedBytes(
                             SetTotalBytes(pOp, u.total_transfer_bytes),
                             u.total_transfer_bytes_completed),
                         1, k, callArgs.size)
       IN  /\ pOp' = ApplyTrackingUpdate(pOp, u, pClock)
           /\ callRet' = DeliverTo(callRet, locked, 1, k, callArgs.size,
                                   FALSE, pClock)
    /\ callArgs' = [callArgs EXCEPT !.sent = k]
    /\ UNCHANGED <<pClock, pCall, callPc>>

\* download_file_with_progress returns: Ok makes the forced final update;
\* Err is logged and the plain GET starts from byte 0.
DvXetEnd(ok) ==
    /\ callPc = "xet"
    /\ IF ok
       THEN /\ DvUpdateFile(callArgs.size, callArgs.size, TRUE)
            /\ callPc' = "done"
            /\ callArgs' = callArgs
       ELSE /\ pOp' = EnsureFileEntry(pOp, 1, callArgs.size)
            /\ callRet' = callRet
            /\ callPc' = "http"
            /\ callArgs' = [callArgs EXCEPT !.sent = 0]
    /\ UNCHANGED <<pClock, pCall>>

\* One chunk of the body: downloaded += 1, then the unforced update.
DvHttpChunk ==
    /\ callPc = "http"
    /\ callArgs.sent < callArgs.size
    /\ DvUpdateFile(callArgs.sent + 1, callArgs.size, FALSE)
    /\ callArgs' = [callArgs EXCEPT !.sent = @ + 1]
    /\ UNCHANGED <<pClock, pCall, callPc>>

\* The stream ends: flush and the forced final update.
DvHttpEnd ==
    /\ callPc = "http"
    /\ callArgs.sent = callArgs.size
    /\ DvUpdateFile(callArgs.sent, callArgs.size, TRUE)
    /\ callPc' = "done"
    /\ UNCHANGED <<pClock, pCall, callArgs>>

-----------------------------------------------------------------------------
(* Two calls for the same descriptor, one after the other                 *)
(* (download_file_with_info on the plain HTTP path, hf_adapter.rs).       *)
(* callArgs holds the descriptor's size, the length of the body behind    *)
(* the resolve URL and the number of the call; callRet holds the          *)
(* destination's length, the bytes the call has written, the requests the *)
(* call has sent, its result, and what the first call left behind.        *)

NoFirst == [res |-> "none", disk |-> Missing, partial |-> FALSE]

InitAgainOnly ==
    /\ callPc = "check"
    /\ callArgs \in [size : 0..PathSize, body : 0..PathSize, call : {1}]
    /\ callRet = [disk |-> Missing, got |-> 0, net |-> {}, res |-> "none",
                  how |-> "none", first |-> NoFirst]

\* The cache test: a destination of the descriptor's size is returned as
\* it is, with no request.
AgCheck ==
    /\ callPc = "check"
    /\ IF CacheHit(callRet.disk, callArgs.size)
       THEN /\ callPc' = "done"
            /\ callRet' = [callRet EXCEPT !.res = "ok", !.how = "cache"]
       ELSE /\ callPc' = "fetch"
            /\ callRet' = callRet
    /\ UNCHANGED callArgs

\* The HEAD probe, the poll, the GET and File::create, which truncates the
\* destination.  sent is how far the requests got: the HEAD fails, the
\* poll answers true, the GET fails, or both answer.
AgFetch(sent) ==
    /\ callPc = "fetch"
    /\ callRet' =
         CASE sent = "head_failed" ->
                [callRet EXCEPT !.net = {"head"}, !.res = "head_failed"]
           [] sent = "cancelled" ->
                [callRet EXCEPT !.net = {"head"}, !.res = "cancelled"]
           [] sent = "get_failed" ->
                [callRet EXCEPT !.net = {"head", "get"}, !.res = "get_failed"]
           [] sent = "ok" ->
                [callRet EXCEPT !.net = {"head", "get"}, !.disk = 0, !.got = 0]
    /\ callPc' = IF sent = "ok" THEN "stream" ELSE "done"
    /\ UNCHANGED callArgs

\* One item of the body stream: an error, or a chunk of one byte that is
\* counted, then dropped when the poll answers true, then written.
AgChunk(item) ==
    /\ callPc = "stream"
    /\ callRet.got < callArgs.body
    /\ CASE item = "err" ->
              /\ callRet' = [callRet EXCEPT !.res = "stream_failed"]
              /\ callPc' = "done"
         [] item = "cancel" ->
              /\ callRet' = [callRet EXCEPT !.got = @ + 1, !.res = "cancelled"]
              /\ callPc' = "done"
         [] item = "write" ->
              /\ callRet' = [callRet EXCEPT !.got = @ + 1, !.disk = @ + 1]
              /\ callPc' = "stream"
    /\ UNCHANGED callArgs

\* The stream ends: flush and Ok(destination).
AgEnd ==
    /\ callPc = "stream"
    /\ callRet.got = callArgs.body
    /\ callRet' = [callRet EXCEPT !.res = "ok", !.how = "http"]
    /\ callPc' = "done"
    /\ UNCHANGED callArgs

\* The caller asks for the same file again after a call that failed or
\* was cancelled.
AgAgain ==
    /\ callPc = "done"
    /\ callArgs.call = 1
    /\ callRet.res # "ok"
    /\ callArgs' = [callArgs EXCEPT !.call = 2]
    /\ callRet' = [disk |-> callRet.disk, got |-> 0, net |-> {},
                   res |-> "none", how |-> "none",
                   first |-> [res |-> callRet.res, disk |-> callRet.disk,
                              partial |-> /\ "get" \in callRet.net
                                          /\ callRet.disk # Missing
                                          /\ callRet.disk < callArgs.body]]
    /\ callPc' = "check"

-----------------------------------------------------------------------------
(* The C entry points: argument checks, then the operation               *)

EntryPoints ==
    {"set_progress_callback", "list_files", "download_file", "download_snapshot"}

\* The pointer parameters of each entry point; request.x is a field of the
\* XetDownloadRequest the request pointer leads to.
PointerParams(entry) ==
    CASE entry = "set_progress_callback" -> {"client", "callback", "user_data"}
      [] entry = "list_files" -> {"client", "repo_id", "revision", "out_files"}
      [] entry = "download_file" ->
            {"client", "request", "cancel_token", "out_path",
             "request.repo_id", "request.filename", "request.revision"}
      [] entry = "download_snapshot" ->
            {"client", "repo_id", "repo_type", "revision", "local_dir",
             "cancel_token", "out_path"}

RequiredPointersMutant(entry) ==
    CASE entry = "set_progress_callback" -> {"client"}
      [] entry = "list_files" -> {"client", "repo_id", "out_files"}
      [] entry = "download_file" ->
            {"client", "request", "out_path", "request.repo_id"}
      [] entry = "download_snapshot" ->
            {"client", "repo_id", "local_dir", "out_path"}

\* The pointers each entry point refuses when null: the is_null() tests and
\* the c_str_to_string(..) matches that return an error on None.
RequiredPointers(entry) ==
    CASE entry = "set_progress_callback" -> {"client"}
      [] entry = "list_files" -> {"client", "repo_id", "out_files"}
      [] entry = "download_file" ->
            {"client", "request", "out_path", "request.repo_id",
             "request.filename"}
      [] entry = "download_snapshot" ->
            {"client", "repo_id", "local_dir", "out_path"}

FfiArgs ==
    UNION {[entry : {e}, nulls : SUBSET PointerParams(e), has_callback : BOOLEAN] :
              e \in EntryPoints}

\* What a call has done so far.
FfiFresh ==
    [code |-> -1, requests |-> 0, progress_ops |-> 0, polls |-> 0,
     out_written |-> FALSE]

InitFfiOnly ==
    /\ callPc = "call"
    /\ callArgs \in FfiArgs
    /\ callRet = FfiFresh

\* The checks at the head of the entry point.
FfiCheck ==
    /\ callPc = "call"
    /\ IF RequiredPointers(callArgs.entry) \cap callArgs.nulls # {}
         THEN /\ callPc' = "returned"
              /\ callRet' = [callRet EXCEPT !.code = XET_INVALID_CONFIG]
         ELSE /\ callPc' = "checked"
              /\ UNCHANGED callRet
    /\ UNCHANGED callArgs

\* Past the checks: set_progress_callback stores the callback and returns;
\* the others build the cancel check and the progress operation where they
\* have them and hand the operation to block_on, which sends the listing
\* request.
FfiEnter ==
    /\ callPc = "checked"
    /\ IF callArgs.entry = "set_progress_callback"
         THEN /\ callPc' = "returned"
              /\ callRet' = [callRet EXCEPT !.code = XET_OK]
         ELSE /\ callPc' = "running"
              /\ callRet' =
                   [callRet EXCEPT
                      !.requests = 1,
                      !.progress_ops =
                          IF callArgs.entry # "list_files" /\ callArgs.has_callback
                          THEN 1 ELSE 0]
    /\ UNCHANGED callArgs

\* block_on returns: Ok writes the out-parameter and returns null, Err is
\* converted by from_anyhow.  A download polls its cancel check on the way
\* when it got as far as a file.
FfiComplete(ok, polled) ==
    /\ callPc = "running"
    /\ polled =>
          /\ callArgs.entry \in {"download_file", "download_snapshot"}
          /\ "cancel_token" \notin callArgs.nulls
    /\ callPc' = "returned"
    /\ callRet' = [callRet EXCEPT
                     !.code = IF ok THEN XET_OK ELSE XET_UNKNOWN,
                     !.out_written = ok,
                     !.polls = IF polled THEN 1 ELSE 0]
    /\ UNCHANGED callArgs

-----------------------------------------------------------------------------
(* Specifications                                                          *)

InitRetry == InitRetryOnly /\ ProgIdle /\ TokenIdle /\ DlIdle /\ CallIdle

NextRetry ==
    \/ \E resp \in Responses :
          RetrySend(resp) /\ UNCHANGED <<progVars, tokenVars, dlVars, callVars>>
    \/ RetrySleep /\ UNCHANGED <<progVars, tokenVars, dlVars, callVars>>

SpecRetry == InitRetry /\ [][NextRetry]_vars

InitProgress == InitProgressOnly /\ RetryIdle /\ TokenIdle /\ DlIdle /\ CallIdle

NextProgress ==
    \/ \E ph \in Phases, force \in BOOLEAN :
          PSetPhase(ph, force) /\ UNCHANGED <<retryVars, tokenVars, dlVars, callVars>>
    \/ \E n \in 0..MaxFiles, b \in PVals :
          PSetTotalHint(n, b) /\ UNCHANGED <<retryVars, tokenVars, dlVars, callVars>>
    \/ \E b \in PVals : PSetTotalBytes(b) /\ UNCHANGED <<retryVars, tokenVars, dlVars, callVars>>
    \/ \E b \in PVals : PSetCompletedBytes(b) /\ UNCHANGED <<retryVars, tokenVars, dlVars, callVars>>
    \/ \E f \in FileIds, b \in PVals :
          PEnsureFileEntry(f, b) /\ UNCHANGED <<retryVars, tokenVars, dlVars, callVars>>
    \/ \E f \in FileIds, c \in PVals, t \in PVals, force \in BOOLEAN :
          PUpdateFileAbsolute(f, c, t, force) /\ UNCHANGED <<retryVars, tokenVars, dlVars, callVars>>
    \/ \E tt \in PVals, td \in PVals, f \in FileIds, c \in PVals :
          PApplyTrackingUpdate(TrackingUpdate(tt, td, f, c, tt))
          /\ UNCHANGED <<retryVars, tokenVars, dlVars, callVars>>
    \/ PTick /\ UNCHANGED <<retryVars, tokenVars, dlVars, callVars>>

SpecProgress == InitProgress /\ [][NextProgress]_vars

NextEmit ==
    \/ \E ph \in Phases, force \in BOOLEAN :
          ESetPhase(ph, force) /\ UNCHANGED <<retryVars, tokenVars, dlVars, callVars>>
    \/ \E c \in 0..MaxVal, force \in BOOLEAN :
          EUpdateFile(c, force) /\ UNCHANGED <<retryVars, tokenVars, dlVars, callVars>>
    \/ ETick /\ UNCHANGED <<retryVars, tokenVars, dlVars, callVars>>

SpecEmit == InitProgress /\ [][NextEmit]_vars

InitShared == InitSharedOnly /\ RetryIdle /\ TokenIdle /\ DlIdle

NextShared ==
    \/ \E w \in 1..NumWorkers, c \in 0..MaxVal, force \in BOOLEAN :
          WEmitLocked(w, c, force) /\ UNCHANGED <<retryVars, tokenVars, dlVars>>
    \/ \E w \in 1..NumWorkers :
          WCallbackEnter(w) /\ UNCHANGED <<retryVars, tokenVars, dlVars>>
    \/ \E w \in 1..NumWorkers :
          WCallbackReturn(w) /\ UNCHANGED <<retryVars, tokenVars, dlVars>>
    \/ ETick /\ UNCHANGED <<retryVars, tokenVars, dlVars, callVars>>

SpecShared == InitShared /\ [][NextShared]_vars

InitHandler == InitHandlerOnly /\ RetryIdle /\ ProgIdle /\ TokenIdle /\ DlIdle

NextHandler ==
    \/ \E cb \in HandlerCallbacks, ud \in HandlerUserData, ms \in HandlerThrottles :
          HConfigure(cb, ud, ms)
          /\ UNCHANGED <<retryVars, progVars, tokenVars, dlVars>>
    \/ HNewOperation /\ UNCHANGED <<retryVars, progVars, tokenVars, dlVars>>

SpecHandler == InitHandler /\ [][NextHandler]_vars

InitToken == TokenIdle /\ RetryIdle /\ ProgIdle /\ DlIdle /\ CallIdle

NextToken ==
    \/ \E c \in Callers, route \in Routes :
          QCall(c, route) /\ UNCHANGED <<retryVars, progVars, dlVars, callVars>>
    \/ \E c \in Callers : QLock(c) /\ UNCHANGED <<retryVars, progVars, dlVars, callVars>>
    \/ \E c \in Callers, resp \in RefreshResponses :
          QResponse(c, resp) /\ UNCHANGED <<retryVars, progVars, dlVars, callVars>>
    \/ \E c \in Callers : QReturn(c) /\ UNCHANGED <<retryVars, progVars, dlVars, callVars>>
    \/ QTick /\ UNCHANGED <<retryVars, progVars, dlVars, callVars>>

SpecToken == InitToken /\ [][NextToken]_vars


\* What a download call leaves alone: the retry loop's detail and the token
\* manager's callers are followed in their own specifications.
dlFrame == <<fSize, retryVars, callVars, pCall, tmLock, tmNow, tmCalls, tmFailed, tmObtained,
             qPc, qRoute, qResult, qConn, qWaited>>

Init == InitDownload /\ RetryIdle /\ ProgIdle /\ TokenIdle /\ CallIdle

Next ==
    \/ CancelFlip /\ UNCHANGED dlFrame
    \/ DlStart /\ UNCHANGED dlFrame
    \/ \E ok \in BOOLEAN : DlListedFile(ok) /\ UNCHANGED dlFrame
    \/ \E ok \in BOOLEAN : DlListedSnapshot(ok) /\ UNCHANGED dlFrame
    \/ \E t \in FileIds : TaskStart(t) /\ UNCHANGED dlFrame
    \/ \E t \in FileIds : TaskCheck(t) /\ UNCHANGED dlFrame
    \/ \E t \in FileIds, ok \in BOOLEAN, xet \in BOOLEAN :
          TaskHead(t, ok, xet) /\ UNCHANGED dlFrame
    \/ \E t \in FileIds, resp \in DlRefreshResponses, built \in BOOLEAN :
          TaskRefresh(t, resp, built) /\ UNCHANGED dlFrame
    \/ \E t \in FileIds, ok \in BOOLEAN, k \in NoReport..2 :
          TaskRecon(t, ok, k) /\ UNCHANGED dlFrame
    \/ \E t \in FileIds, ok \in BOOLEAN, len \in 0..2 :
          TaskGet(t, ok, len) /\ UNCHANGED dlFrame
    \/ \E t \in FileIds, ok \in BOOLEAN : TaskChunk(t, ok) /\ UNCHANGED dlFrame
    \/ \E t \in FileIds : TaskWrite(t) /\ UNCHANGED dlFrame
    \/ \E t \in FileIds : TaskStreamEnd(t) /\ UNCHANGED dlFrame
    \/ DlFinishFile /\ UNCHANGED dlFrame
    \/ DlFinishSnapshot /\ UNCHANGED dlFrame
    \/ DlTick /\ UNCHANGED dlFrame

Spec == Init /\ [][Next]_vars

InitLink == InitLinkOnly /\ RetryIdle /\ ProgIdle /\ TokenIdle /\ DlIdle

NextLink == LinkParse /\ UNCHANGED <<retryVars, progVars, tokenVars, dlVars>>

SpecLink == InitLink /\ [][NextLink]_vars

InitFileData == InitFileDataOnly /\ RetryIdle /\ ProgIdle /\ TokenIdle /\ DlIdle

NextFileData == FileDataParse /\ UNCHANGED <<retryVars, progVars, tokenVars, dlVars>>

SpecFileData == InitFileData /\ [][NextFileData]_vars

InitFilter == InitFilterOnly /\ RetryIdle /\ ProgIdle /\ TokenIdle /\ DlIdle

NextFilter == SnapFilter /\ UNCHANGED <<retryVars, progVars, tokenVars, dlVars>>

SpecFilter == InitFilter /\ [][NextFilter]_vars

InitDeliver == InitDeliverOnly /\ RetryIdle /\ TokenIdle /\ DlIdle

NextDeliver ==
    \/ DvBegin /\ UNCHANGED <<retryVars, tokenVars, dlVars>>
    \/ \E hit, xet \in BOOLEAN :
           DvCheck(hit, xet) /\ UNCHANGED <<retryVars, tokenVars, dlVars>>
    \/ \E k \in 1..PathSize :
           /\ k <= callArgs.size
           /\ DvXetReport(k)
           /\ UNCHANGED <<retryVars, tokenVars, dlVars>>
    \/ \E ok \in BOOLEAN :
           DvXetEnd(ok) /\ UNCHANGED <<retryVars, tokenVars, dlVars>>
    \/ DvHttpChunk /\ UNCHANGED <<retryVars, tokenVars, dlVars>>
    \/ DvHttpEnd /\ UNCHANGED <<retryVars, tokenVars, dlVars>>
    \/ PTick /\ UNCHANGED <<retryVars, tokenVars, dlVars, callVars>>

SpecDeliver == InitDeliver /\ [][NextDeliver]_vars

InitAgain == InitAgainOnly /\ RetryIdle /\ ProgIdle /\ TokenIdle /\ DlIdle

NextAgain ==
    \/ AgCheck /\ UNCHANGED <<retryVars, progVars, tokenVars, dlVars>>
    \/ \E sent \in {"head_failed", "cancelled", "get_failed", "ok"} :
           AgFetch(sent) /\ UNCHANGED <<retryVars, progVars, tokenVars, dlVars>>
    \/ \E item \in {"err", "cancel", "write"} :
           AgChunk(item) /\ UNCHANGED <<retryVars, progVars, tokenVars, dlVars>>
    \/ AgEnd /\ UNCHANGED <<retryVars, progVars, tokenVars, dlVars>>
    \/ AgAgain /\ UNCHANGED <<retryVars, progVars, tokenVars, dlVars>>

SpecAgain == InitAgain /\ [][NextAgain]_vars

InitDest == InitDestOnly /\ RetryIdle /\ ProgIdle /\ TokenIdle /\ DlIdle

NextDest == DestResolve /\ UNCHANGED <<retryVars, progVars, tokenVars, dlVars>>

SpecDest == InitDest /\ [][NextDest]_vars

InitList == InitListOnly /\ RetryIdle /\ ProgIdle /\ TokenIdle /\ DlIdle

NextList == ListConvert /\ UNCHANGED <<retryVars, progVars, tokenVars, dlVars>>

SpecList == InitList /\ [][NextList]_vars

InitFfi == InitFfiOnly /\ RetryIdle /\ ProgIdle /\ TokenIdle /\ DlIdle

NextFfi ==
    \/ FfiCheck /\ UNCHANGED <<retryVars, progVars, tokenVars, dlVars>>
    \/ FfiEnter /\ UNCHANGED <<retryVars, progVars, tokenVars, dlVars>>
    \/ \E ok \in BOOLEAN, polled \in BOOLEAN :
          FfiComplete(ok, polled)
          /\ UNCHANGED <<retryVars, progVars, tokenVars, dlVars>>

SpecFfi == InitFfi /\ [][NextFfi]_vars

InitMarshal == InitMarshalOnly /\ RetryIdle /\ ProgIdle /\ TokenIdle /\ DlIdle

NextMarshal ==
    \/ FfiMarshalFile /\ UNCHANGED <<retryVars, progVars, tokenVars, dlVars>>
    \/ FfiMarshalReturn /\ UNCHANGED <<retryVars, progVars, tokenVars, dlVars>>

SpecMarshal == InitMarshal /\ [][NextMarshal]_vars

InitSnap == InitSnapOnly /\ RetryIdle /\ ProgIdle /\ TokenIdle /\ DlIdle

NextSnap ==
    \/ SnapCancelFlip /\ UNCHANGED <<retryVars, progVars, tokenVars, dlVars>>
    \/ \E t \in SnapTasks :
          SnapAcquire(t) /\ UNCHANGED <<retryVars, progVars, tokenVars, dlVars>>
    \/ \E t \in SnapTasks :
          SnapPoll(t) /\ UNCHANGED <<retryVars, progVars, tokenVars, dlVars>>
    \/ \E t \in SnapTasks :
          SnapFinish(t) /\ UNCHANGED <<retryVars, progVars, tokenVars, dlVars>>

SpecSnap == InitSnap /\ [][NextSnap]_vars

InitSnapLive == InitSnapLiveOnly /\ RetryIdle /\ ProgIdle /\ TokenIdle /\ DlIdle

NextSnapLive ==
    \/ NextSnap
    \/ \E failed \in BOOLEAN :
          SnapCollect(failed) /\ UNCHANGED <<retryVars, progVars, tokenVars, dlVars>>

\* Every request and every poll of a started task returns, and
\* buffer_unordered polls the next future as soon as it has room.
SnapFairness ==
    /\ \A t \in SnapTasks :
          /\ WF_vars(SnapAcquire(t) /\ UNCHANGED <<retryVars, progVars, tokenVars, dlVars>>)
          /\ WF_vars(SnapPoll(t) /\ UNCHANGED <<retryVars, progVars, tokenVars, dlVars>>)
          /\ WF_vars(SnapFinish(t) /\ UNCHANGED <<retryVars, progVars, tokenVars, dlVars>>)
    /\ WF_vars(\E failed \in BOOLEAN :
                  SnapCollect(failed) /\ UNCHANGED <<retryVars, progVars, tokenVars, dlVars>>)

SpecSnapLive == InitSnapLive /\ [][NextSnapLive]_vars /\ SnapFairness

-----------------------------------------------------------------------------
(* Claims                                                                  *)

AllAttemptsFailed ==
    \A i \in 1..Len(rOutcomes) : ~IsSuccess(rKind, rOutcomes[i])

\* C1: a request whose every attempt fails is sent exactly four times, the
\* waits between the attempts are 200, 400, 600 ms in that order, nothing is
\* slept after the fourth attempt, and the call returns an error.
C1_RetryBound ==
    /\ AllAttemptsFailed =>
         /\ Len(rOutcomes) <= 4
         /\ \A i \in 1..Len(rWaits) : rWaits[i] = 200 * i
         /\ Len(rWaits) = (IF rPc = "send" THEN Len(rOutcomes)
                           ELSE Len(rOutcomes) - 1)
    /\ (rPc = "done" /\ AllAttemptsFailed) =>
         /\ Len(rOutcomes) = 4
         /\ rWaits = <<200, 400, 600>>
         /\ rResult = "err"

C1_Witness ==
    /\ rPc = "done"
    /\ rResult = "err"
    /\ Len(rOutcomes) = 4
    /\ rOutcomes[2] = "neterr"
    /\ rOutcomes[4] = "5xx"

\* C11: when download_file has returned success, the file at the
\* destination has the size its listing descriptor carries.
C11_SizeOnDisk ==
    (opMode = "file" /\ opPc = "done" /\ opResult = "ok")
        => disk[reqFile] = FileSize(reqFile)

XetAuthUrls(es) ==
    {es[i].url : i \in {j \in 1..Len(es) : es[j].rel \in {RelXetAuthDq, RelXetAuthSq}}}

\* C12: for a Link header with an entry <URL>; rel="xet-auth" (double or
\* single quotes) parse_link_header_for_xet_auth returns exactly URL,
\* whatever the other entries and whatever characters URL contains; with no
\* xet-auth relation it returns none.
C12_LinkUrl ==
    (callPc = "returned" /\ callArgs \in LinkHeaders)
        => IF XetAuthUrls(callArgs) = {}
           THEN callRet = None
           ELSE callRet \in {Some(u) : u \in XetAuthUrls(callArgs)}

\* dir/name as the text reads it
Slash(dir, name) == dir \o <<"/">> \o name

\* C13: the destination is local_dir/filename when local_dir is set,
\* whatever cache_dir is; otherwise cache_dir/(repo with every '/' replaced
\* by '--')/revision/filename when cache_dir is set; otherwise filename
\* alone; with local_dir set the file resolves under local_dir.
C13_Destination ==
    (callPc = "returned" /\ callArgs \in DestArgs)
        => IF callArgs.local_dir.some
           THEN /\ callRet = Slash(callArgs.local_dir.val, callArgs.filename)
                /\ SubSeq(callRet, 1, Len(callArgs.local_dir.val) + 1)
                       = callArgs.local_dir.val \o <<"/">>
           ELSE IF callArgs.cache_dir.some
                THEN callRet = Slash(Slash(Slash(callArgs.cache_dir.val,
                                                 ReplaceSlash(callArgs.repo_id)),
                                           callArgs.revision),
                                     callArgs.filename)
                ELSE callRet = callArgs.filename

\* Positions of the response whose type is "file", in response order.
RECURSIVE FilePositions(_, _)
FilePositions(body, i) ==
    IF i > Len(body) THEN <<>>
    ELSE (IF body[i].item_type = "file" THEN <<i>> ELSE <<>>)
            \o FilePositions(body, i + 1)

\* C14: list_files returns exactly the entries of the tree response whose
\* type is "file", in response order, each with the entry's path, its oid
\* as hash and its size; entries of any other type are dropped and the
\* result is as long as the number of file entries.
C14_ListFiles ==
    (callPc = "returned" /\ callArgs \in [body : TreeBodies, parses : BOOLEAN]
        /\ callRet.ok)
        => LET pos == FilePositions(callArgs.body, 1)
           IN  /\ Len(callRet.files) = Len(pos)
               /\ Len(callRet.files)
                    = Cardinality({i \in 1..Len(callArgs.body) :
                                     callArgs.body[i].item_type = "file"})
               /\ \A k \in 1..Len(pos) :
                    /\ callRet.files[k].path = callArgs.body[pos[k]].path
                    /\ callRet.files[k].hash = callArgs.body[pos[k]].oid
                    /\ callRet.files[k].size = callArgs.body[pos[k]].size

\* A response of three entries, a directory and a commit among two kinds of
\* file entry, has been converted.
C14_Witness ==
    /\ callPc = "returned"
    /\ callArgs \in [body : TreeBodies, parses : BOOLEAN]
    /\ callRet.ok
    /\ Len(callArgs.body) = 3
    /\ callArgs.body[1].item_type = "directory"
    /\ callArgs.body[2].item_type = "file"
    /\ callArgs.body[3].item_type = "commit"
    /\ Len(callRet.files) = 1

SnapshotSucceeded == opMode = "snapshot" /\ opPc = "done" /\ opResult = "ok"

\* C15 as stated: after a successful download_snapshot over N files of any
\* sizes all N files are on disk and the final emission has phase
\* Finalizing, total_files = N and completed_files = N.
C15_Original ==
    SnapshotSucceeded
        => /\ \A f \in 1..nFiles : disk[f] # Missing
           /\ hasProgress =>
                /\ pOp.cb.calls > 0
                /\ pOp.cb.phase = "Finalizing"
                /\ pOp.cb.total_files = nFiles
                /\ pOp.cb.completed_files = nFiles

\* C15, amended: after a successful download_snapshot over N files all N
\* files are on disk and the final emission has phase Finalizing,
\* total_files = N and completed_files = the number of files whose progress
\* entry has a nonzero total that its completed bytes have reached; that
\* number is N when every file has a nonzero size and its destination holds
\* exactly that many bytes.
C15_FinalEmission ==
    SnapshotSucceeded
        => /\ \A f \in 1..nFiles : disk[f] # Missing
           /\ hasProgress =>
                /\ pOp.cb.calls > 0
                /\ pOp.cb.phase = "Finalizing"
                /\ pOp.cb.total_files = nFiles
                /\ pOp.cb.completed_files =
                     Cardinality({f \in 1..nFiles :
                        /\ pOp.files[f].present
                        /\ pOp.files[f].total_bytes > 0
                        /\ pOp.files[f].completed_bytes
                              >= pOp.files[f].total_bytes})
                /\ (\A f \in 1..nFiles :
                        FileSize(f) > 0 /\ disk[f] = FileSize(f))
                      => pOp.cb.completed_files = nFiles

\* A snapshot of two files, one of them empty, has succeeded with a progress
\* callback: the final emission counts one completed file of two.
C15_Witness ==
    /\ SnapshotSucceeded
    /\ hasProgress
    /\ nFiles = 2
    /\ \E f \in 1..nFiles : FileSize(f) = 0
    /\ pOp.cb.phase = "Finalizing"
    /\ pOp.cb.total_files = 2
    /\ pOp.cb.completed_files = 1

ListingSucceeded ==
    \/ opPc = "running"
    \/ opPc = "done" /\ opResult # "list_failed"

\* C16: the phases of the successive emissions of one operation only move
\* forward along Scanning, Downloading, Finalizing, and nothing later than
\* Scanning is emitted before the tree listing has succeeded.
C16_PhaseOrder ==
    hasProgress
        => /\ ~pOp.cb.back
           /\ ~ListingSucceeded => pOp.cb.phase = "Scanning"

\* A download of one file over plain HTTP has emitted in all three phases,
\* an unforced update after a chunk among them.
C16_Witness ==
    /\ hasProgress
    /\ opMode = "file"
    /\ opPc = "done"
    /\ tHow[reqFile] = "http"
    /\ pClock > 0
    /\ pOp.cb.phase = "Finalizing"
    /\ pOp.cb.calls >= 6

\* C17: an operation with a progress callback emits with phase Finalizing
\* exactly when it returns success: then once, as its last emission; an
\* operation that has failed, was cancelled or is still running has emitted
\* none.
C17_FinalizingIffSuccess ==
    hasProgress
        => /\ (opPc = "done" /\ opResult = "ok")
                => pOp.cb.finalizing = 1 /\ pOp.cb.phase = "Finalizing"
           /\ ~(opPc = "done" /\ opResult = "ok")
                => pOp.cb.finalizing = 0 /\ pOp.cb.phase # "Finalizing"

\* A snapshot of two files has succeeded with a progress callback and its
\* one Finalizing emission came last.
C17_Witness ==
    /\ SnapshotSucceeded
    /\ hasProgress
    /\ nFiles = 2
    /\ pOp.cb.finalizing = 1
    /\ pOp.cb.phase = "Finalizing"
    /\ pOp.cb.calls >= 4

\* C18: when the listing succeeds but holds no descriptor for the requested
\* filename, download_file fails with code NotFound (4), sends no HEAD or
\* GET, creates no destination file and stays in the Scanning phase.
C18_NotFound ==
    (opMode = "file" /\ opPc = "done" /\ opResult = "not_found")
        => /\ retCode = XET_NOT_FOUND
           /\ \A t \in FileIds : tNet[t] = {}
           /\ disk = initDisk
           /\ hasProgress => pOp.phase = "Scanning"

\* C19: an entry point called with a null required pointer returns an
\* error with code InvalidConfig (1) straight from its checks: no request
\* is sent, no progress operation is created, the cancellation token is not
\* polled and the out-parameter is not written.
C19_NullPointer ==
    (callPc # "call" /\ callArgs \in FfiArgs
        /\ \E ptr \in callArgs.nulls : ptr \in
              (CASE callArgs.entry = "set_progress_callback" -> {"client"}
                 [] callArgs.entry = "list_files" ->
                       {"client", "repo_id", "out_files"}
                 [] callArgs.entry = "download_file" ->
                       {"client", "request", "out_path", "request.repo_id",
                        "request.filename"}
                 [] callArgs.entry = "download_snapshot" ->
                       {"client", "repo_id", "local_dir", "out_path"}))
        => /\ callPc = "returned"
           /\ callRet.code = XET_INVALID_CONFIG
           /\ callRet.requests = 0
           /\ callRet.progress_ops = 0
           /\ callRet.polls = 0
           /\ ~callRet.out_written

\* download_file was called with a request whose filename is null, and
\* nothing else null, on a client that has a progress callback.
C19_Witness ==
    /\ callPc = "returned"
    /\ callArgs \in FfiArgs
    /\ callArgs.entry = "download_file"
    /\ callArgs.nulls = {"request.filename"}
    /\ callArgs.has_callback
    /\ callRet.code = XET_INVALID_CONFIG

\* C20: with throttle T a forced emit invokes the callback exactly once; an
\* unforced emit invokes it exactly when the operation has never emitted or
\* at least T has passed since the last emission; an emission sets the
\* last-emission time to now and nothing else changes it.
C20_EmitThrottle ==
    [][LET due == \/ pOp.cb.calls = 0
                  \/ pClock - pOp.last_emit >= pOp.throttle
           once == pOp'.cb.calls = pOp.cb.calls + 1
           none == pOp'.cb.calls = pOp.cb.calls
       IN  /\ pCall' = "forced" => once
           /\ pCall' = "unforced" => IF due THEN once ELSE none
           /\ pCall' = "none" => none
           /\ once \/ none
           /\ once => pOp'.last_emit = pClock
           /\ none => pOp'.last_emit = pOp.last_emit]_vars

\* The callback has been invoked at time 0 and again once the throttle had
\* run out, the clock having stood in between at a time when it had not.
C20_Witness ==
    /\ pCall = "unforced"
    /\ pOp.cb.calls = 2
    /\ pOp.last_emit = pOp.throttle
    /\ pClock = pOp.last_emit
    /\ pOp.phase = "Scanning"

\* C21: for one operation shared by several workers the invocations of the
\* user callback never overlap in time.
C21_Serialized ==
    (DOMAIN callPc = 1..NumWorkers)
        => Cardinality({w \in 1..NumWorkers : callPc[w] = "in_callback"}) <= 1

\* C22: new_operation returns an operation exactly when a callback is
\* installed; configure replaces the whole registration (a null callback
\* makes new_operation return none, throttle_ms = 0 installs 200 ms); an
\* operation already made keeps the callback, user pointer and throttle of
\* its creation whatever is configured later.
C22_Registration ==
    [][/\ callPc'.op = "configure" =>
            /\ callArgs'.callback = callPc'.callback
            /\ callArgs'.user_data = callPc'.user_data
            /\ callArgs'.throttle =
                  IF callPc'.throttle_ms = 0 THEN 200 ELSE callPc'.throttle_ms
            /\ Len(callRet') = Len(callRet)
       /\ callPc'.op = "new_operation" =>
            /\ Len(callRet') = Len(callRet) + 1
            /\ callRet'[Len(callRet')].some <=> callArgs.callback # "null"
            /\ callRet'[Len(callRet')].some =>
                  OperationSettings(callRet'[Len(callRet')], callArgs') = callArgs
       /\ \A i \in 1..Len(callRet) :
            /\ callRet'[i].some = callRet[i].some
            /\ callRet[i].some =>
                  OperationSettings(callRet'[i], callArgs')
                     = OperationSettings(callRet[i], callArgs)]_vars

\* An operation was made with callback cb1 and the default throttle, the
\* registration was then cleared, and a second new_operation returned none.
C22_Witness ==
    /\ callPc = [op |-> "new_operation"]
    /\ Len(callRet) = 2
    /\ callRet[1] = Some([callback |-> "cb1", user_data |-> "p1",
                          throttle |-> DefaultThrottleMs])
    /\ callRet[2] = None
    /\ callArgs.callback = "null"

\* C23: a panic raised while an entry point marshals a listed path into a C
\* string is caught at the boundary and comes back as an error with code
\* Unknown (99), the process staying usable.
C23_PanicCaught ==
    (/\ callPc # "marshal"
     /\ callArgs \in ListedFiles
     /\ \E i \in 1..Len(callArgs) :
           ~CStringNew(callArgs[i].path).some \/ ~CStringNew(callArgs[i].hash).some)
        => callPc = "returned" /\ callRet.code = XET_UNKNOWN

\* C24: a refresh whose route answers HTTP 500 has requested that route
\* four times, as send_with_retry would, before it gives up.
C24_RefreshRetried ==
    \A c \in Callers :
        (tmCalls = 1 /\ qPc[c] = "done" /\ qResult[c] = "err_status")
            => tmGets[qRoute[c]] = MAX_HTTP_RETRIES + 1

\* C25: when the token is found set between streamed chunks the download
\* returns an error, the chunk in hand is not written, and the destination
\* stays on disk holding exactly the chunks written before, so fewer bytes
\* than the body has.
C25_CancelBetweenChunks ==
    \A t \in FileIds :
        (tPc[t] = "done" /\ tRes[t] = "cancelled" /\ tGot[t] >= 1)
            => /\ disk[t] # Missing
               /\ disk[t] = tGot[t] - 1
               /\ disk[t] < BodyLen(t)
               /\ opPc = "done" => (retCode # XET_OK /\ ~outWritten)

\* The token was found set at the second chunk of a two-chunk body: one
\* chunk is on disk and the call has returned.
C25_Witness ==
    \E t \in FileIds :
        /\ tPc[t] = "done" /\ tRes[t] = "cancelled"
        /\ tGot[t] = 2 /\ BodyLen(t) = 2 /\ disk[t] = 1
        /\ opPc = "done"

\* C26: send_with_retry makes exactly k attempts, k the index of the first
\* attempt that satisfies the caller's predicate or 4 when none does; the
\* successful response is returned at once, and a wait of 200*i ms stands
\* only between failed attempt i and attempt i+1.
C26_FirstSuccess ==
    LET n == Len(rOutcomes)
    IN  /\ \A i \in 1..(n - 1) : ~IsSuccess(rKind, rOutcomes[i])
        /\ n <= 4
        /\ \A i \in 1..Len(rWaits) : rWaits[i] = 200 * i
        /\ Len(rWaits) = (IF rPc = "send" THEN n ELSE n - 1)
        /\ (rPc = "done" /\ rResult # "none") =>
              /\ n >= 1
              /\ IsSuccess(rKind, rOutcomes[n]) \/ n = 4
              /\ rResult = (IF IsSuccess(rKind, rOutcomes[n]) THEN "ok" ELSE "err")
        /\ (rPc = "sleep") => ~IsSuccess(rKind, rOutcomes[n])

\* A HEAD answered 5xx, transport error, then 3xx: three attempts, two waits.
C26_Witness ==
    /\ rPc = "done"
    /\ rResult = "ok"
    /\ rKind = "head"
    /\ rOutcomes = <<"5xx", "neterr", "3xx">>
    /\ rWaits = <<200, 400>>

C28_HintMonotone ==
    [][(pOp.total_files_hint # NoHint /\ pOp'.total_files_hint # NoHint)
          => /\ TotalFiles(pOp') >= TotalFiles(pOp)
             /\ pOp'.total_bytes >= pOp.total_bytes]_vars

\* C29: a refresh call returns the cached connection, sending nothing,
\* exactly when a connection is cached, its route is the one asked for and
\* its expiration is greater than now + 60 s; otherwise it sends one GET to
\* the route and on success the cache becomes the new connection with that
\* route.
C29_CacheOrOneGet ==
    [][\A c \in Callers :
          /\ (qPc[c] = "waiting" /\ qPc'[c] # "waiting") =>
                LET hit == /\ tmCache.present
                           /\ tmCache.route = qRoute[c]
                           /\ tmCache.info.expiration_unix_epoch > tmNow + 60
                IN  IF hit
                      THEN /\ qPc'[c] = "done"
                           /\ qResult'[c] = "cached"
                           /\ qConn'[c] = tmCache.info
                           /\ tmGets' = tmGets
                           /\ tmCache' = tmCache
                      ELSE /\ qPc'[c] = "fetching"
                           /\ tmGets' = [tmGets EXCEPT ![qRoute[c]] = @ + 1]
          /\ (qPc[c] = "fetching" /\ qPc'[c] # "fetching") =>
                /\ tmGets' = tmGets
                /\ qResult'[c] = "fetched" =>
                      tmCache' = [present |-> TRUE, info |-> qConn'[c],
                                  route |-> qRoute[c]]]_vars

\* A connection for routeA is cached and good for more than 60 s, and a
\* refresh for routeB has sent its GET all the same.
C29_Witness ==
    /\ tmCache.present
    /\ tmCache.route = "routeA"
    /\ tmCache.info.expiration_unix_epoch > tmNow + 60
    /\ \E c \in Callers : qPc[c] = "fetching" /\ qRoute[c] = "routeB"
    /\ tmGets = [routeA |-> 1, routeB |-> 1]

\* C30: a refresh answered with a non-2xx status, or without one of the
\* three x-xet headers, or with an expiration that is no unsigned integer,
\* returns an error and leaves the cached connection and route as they
\* were; an answer carrying all three gives a connection with exactly those
\* endpoint, token and expiration values.
C30_RefreshResult ==
    /\ [](\A resp \in RefreshResponses, route \in Routes :
            LET out == RefreshOutcome(tmCache, route, resp)
                h == resp.headers
                bad == \/ resp.status # "2xx"
                       \/ h.cas_url = "absent"
                       \/ h.access_token = "absent"
                       \/ h.expiration < 0
            IN  IF bad
                  THEN ~out.conn.present /\ out.cache = tmCache
                  ELSE out.conn = [present |-> TRUE,
                                   endpoint |-> h.cas_url,
                                   access_token |-> h.access_token,
                                   expiration_unix_epoch |-> h.expiration])
    /\ [][\A c \in Callers :
            (qPc[c] = "fetching" /\ qPc'[c] = "done") =>
                IF qResult'[c] \in {"err_send", "err_status", "err_headers"}
                  THEN tmCache' = tmCache /\ ~qConn'[c].present
                  ELSE qResult'[c] = "fetched" /\ qConn'[c].present]_vars

\* A refresh for routeB failed on its headers while the connection cached
\* for routeA stayed in the cache.
C30_Witness ==
    /\ tmCache.present
    /\ tmCache.route = "routeA"
    /\ \E c \in Callers :
          qPc[c] = "done" /\ qRoute[c] = "routeB" /\ qResult[c] = "err_headers"

\* C31: connections are cached per refresh route: after successful
\* refreshes for routeA and then routeB, a further refresh for routeA made
\* while its connection is good for more than 60 s is served from the cache
\* with no GET.
C31_PerRouteCache ==
    ( /\ tmGets = [routeA |-> 1, routeB |-> 1]
      /\ ~tmFailed
      /\ tmCache.present
      /\ tmCache.route = "routeB"
      /\ \A e \in tmObtained : e > tmNow + 60
      /\ \A c \in Callers : qPc[c] \in {"idle", "done"} )
        => ServedFromCache(tmCache, "routeA", tmNow)

\* C32: with x-xet-hash and x-xet-refresh-route present and a Link header
\* that is absent or has no xet-auth entry, the parsed metadata carries the
\* x-xet-refresh-route value; without x-xet-hash there is no metadata.
C32_RefreshRouteFallback ==
    (callPc = "returned" /\ callArgs \in XetHeaderMaps) =>
        /\ ~callArgs.hash.some => callRet = None
        /\ ( /\ callArgs.hash.some
             /\ callArgs.refresh_route.some
             /\ \/ callArgs.link.kind = "absent"
                \/ /\ callArgs.link.kind = "str"
                   /\ XetAuthUrls(callArgs.link.entries) = {} )
              => callRet = Some([file_hash |-> callArgs.hash.val,
                                 refresh_route |-> callArgs.refresh_route.val])

C34_PatternFilter ==
    (callPc = "returned" /\ callArgs.files \in SnapshotListings) =>
        LET files == callArgs.files
            allow == callArgs.allow
            deny == callArgs.ignore
            Allowed(path) ==
                ~allow.some \/ \E i \in 1..Len(allow.val) : StrContains(path, allow.val[i])
            Denied(path) ==
                deny.some /\ \E i \in 1..Len(deny.val) : StrContains(path, deny.val[i])
            kept == {i \in 1..Len(files) : Allowed(files[i].path) /\ ~Denied(files[i].path)}
        IN  /\ Len(callRet.scheduled) = Cardinality(kept)
            /\ {callRet.scheduled[i] : i \in 1..Len(callRet.scheduled)}
                  = {files[i] : i \in kept}
            /\ callRet.total_files = Cardinality(kept)
            /\ callRet.total_bytes = SumSizes(callRet.scheduled)

\* Of "ab" and "b", both allowed by the pattern "b", the deny pattern "ab"
\* drops the first: one file is scheduled and counted.
C34_Witness ==
    /\ callPc = "returned"
    /\ callArgs.files = <<[path |-> <<"a", "b">>, size |-> 2],
                          [path |-> <<"b">>, size |-> 1]>>
    /\ callArgs.allow = Some(<<<<"b">>>>)
    /\ callArgs.ignore = Some(<<<<"a", "b">>>>)
    /\ callRet.scheduled = <<[path |-> <<"b">>, size |-> 1]>>
    /\ callRet.total_files = 1
    /\ callRet.total_bytes = 1

\* The counters of an operation.
Counters(st) ==
    [files |-> st.files, completed_bytes |-> st.completed_bytes,
     total_bytes |-> st.total_bytes]

\* The update_file_absolute and ensure_file_entry calls: [name, completed,
\* total], completed = -1 for ensure_file_entry.
FileCalls == [name : FileIds, completed : PVals \cup {-1}, total : PVals]

ApplyCall(st, c) ==
    IF c.completed = -1 THEN EnsureFileEntry(st, c.name, c.total)
    ELSE UpdateFileState(st, c.name, c.completed, c.total)

\* An order on the calls, so that each pair is taken once.
CallKey(c) == (c.name * 100) + ((c.completed + 1) * 10) + c.total

\* C35: the counters reached by update_file_absolute and ensure_file_entry
\* calls do not depend on the order of the calls: any two calls commute,
\* each leaves the file's total and completed at the maximum of the old
\* value and the one passed, and a call repeated changes no counter.
C35_OrderIndependent ==
    \A a \in FileCalls :
        LET sa == ApplyCall(pOp, a)
            old == EntryOrDefault(pOp, a.name)
        IN  /\ sa.files[a.name].total_bytes = Max(old.total_bytes, a.total)
            /\ sa.files[a.name].completed_bytes
                  = Max(old.completed_bytes, a.completed)
            /\ Counters(ApplyCall(sa, a)) = Counters(sa)
            /\ \A b \in {c \in FileCalls : CallKey(c) > CallKey(a)} :
                  Counters(ApplyCall(sa, b)) = Counters(ApplyCall(ApplyCall(pOp, b), a))

\* Both files have an entry that was raised in total and completed, and the
\* aggregate holds both.
C35_Witness ==
    /\ pOp.files[1] = [present |-> TRUE, total_bytes |-> 1, completed_bytes |-> 1]
    /\ pOp.files[2] = [present |-> TRUE, total_bytes |-> U64_MAX, completed_bytes |-> 1]
    /\ pOp.completed_bytes = 2

\* C36: as the callback sees them, the current-file completed bytes of
\* successive updates naming the file never decrease, and the aggregate
\* completed_bytes of successive updates never decreases, on every path the
\* file can take (cache hit, plain GET, dedup, dedup then plain GET).
C36_DeliveredMonotone ==
    [][callRet'.emits > callRet.emits =>
          /\ callRet'.file_completed >= callRet.file_completed
          /\ callRet'.completed_bytes >= callRet.completed_bytes]_vars

\* C38: when the token answers true at a poll inside the dedup path (at the
\* entry of download_with_xet or before the reconstruction) and still
\* answers true at the poll before the plain GET, the file's download
\* returns the cancellation error and sends no plain GET for the file.
C38_CancelNotAbsorbed ==
    [][\A t \in FileIds :
          (/\ tPc[t] \in {"head", "refresh"}
           /\ cancel
           /\ ~tXetErr[t] /\ tXetErr'[t])
             => /\ tPc'[t] = "done"
                /\ tRes'[t] = "cancelled"
                /\ "get" \notin tNet'[t]]_vars

C38_Witness ==
    \E t \in FileIds :
        /\ tXetErr[t]
        /\ tPc[t] = "done" /\ tRes[t] = "cancelled"
        /\ tNet[t] = {"head", "refresh"}
        /\ cancel

\* C39: a destination left partial by a cancelled or failed download is
\* never taken for a cache hit by the next download of the same descriptor:
\* the next call sends the HEAD probe and the GET, truncates and rewrites
\* the file, and when it succeeds the file holds the whole body.
C39_PartialRedownloaded ==
    (callArgs.call = 2 /\ callRet.first.partial /\ callPc = "done")
        => /\ callRet.how # "cache"
           /\ "head" \in callRet.net
           /\ callRet.res = "ok" =>
                 /\ "get" \in callRet.net
                 /\ callRet.disk = callArgs.body

\* The same when the body has the length the descriptor records.
C39_WhenSizesAgree ==
    (callArgs.size = callArgs.body) => C39_PartialRedownloaded

C39_RedownloadSeen ==
    /\ callArgs = [size |-> 2, body |-> 2, call |-> 2]
    /\ callRet.first = [res |-> "cancelled", disk |-> 1, partial |-> TRUE]
    /\ callPc = "done" /\ callRet.res = "ok" /\ callRet.how = "http"
    /\ callRet.disk = 2

\* C40: download_snapshot terminates for every number n >= 0 of filtered
\* files and every max_concurrent >= 0, as long as every request and poll
\* returns: the call returns (Ok for an empty list), every file task has
\* then run to completion having acquired exactly one permit, and every
\* permit is back, whether the tasks succeeded or failed.
C40_Terminates ==
    /\ <>(callArgs.returned # "none")
    /\ [](callArgs.returned # "none" =>
            /\ \A t \in SnapTasks :
                  /\ t <= callArgs.n <=> callPc[t] = "done"
                  /\ callPc[t] = "done" =>
                        Cardinality({i \in 1..Len(callRet[t]) :
                                        callRet[t][i] = "acquire"}) = 1
            /\ callArgs.permits = callArgs.limit
            /\ callArgs.n = 0 => callArgs.returned = "ok")

C40_Witness ==
    /\ callArgs.n = NumSnapTasks /\ callArgs.limit = 2
    /\ callArgs.returned = "err"
    /\ callArgs.permits = 2
    /\ callRet[1] = <<"acquire", "poll_clear", "poll_clear">>
    /\ callRet[NumSnapTasks] = <<"acquire", "poll_set">>

C40_EmptyList ==
    /\ callArgs.n = 0 /\ callArgs.returned = "ok"

\* The same for the aggregate alone.
C36_AggregateDelivered ==
    [][callRet'.emits > callRet.emits =>
          callRet'.completed_bytes >= callRet.completed_bytes]_vars

\* The completed bytes of the first n file entries, added up.
RECURSIVE SumCompleted(_, _)
SumCompleted(st, n) ==
    IF n = 0 THEN 0
    ELSE (IF st.files[n].present THEN st.files[n].completed_bytes ELSE 0)
            + SumCompleted(st, n - 1)

RECURSIVE SumTotals(_, _)
SumTotals(st, n) ==
    IF n = 0 THEN 0
    ELSE (IF st.files[n].present THEN st.files[n].total_bytes ELSE 0)
            + SumTotals(st, n - 1)

\* C37: the aggregate completed_bytes is the sum of the file entries'
\* completed bytes, and so stays within total_bytes whenever every entry's
\* completed bytes are within its total and total_bytes covers the sum of
\* the entries' totals.
C37_AggregateIsSum ==
    /\ pOp.completed_bytes = Min(SumCompleted(pOp, MaxFiles), U64_MAX)
    /\ ( /\ \A f \in FileIds :
               pOp.files[f].present =>
                  pOp.files[f].completed_bytes <= pOp.files[f].total_bytes
         /\ pOp.total_bytes >= SumTotals(pOp, MaxFiles) )
          => pOp.completed_bytes <= pOp.total_bytes

\* C2: in every state of a snapshot over nFiles files with configured bound
\* cfgMaxConc, the tasks holding a permit (any position from the cache check
\* to the last write) number at most min(max(cfgMaxConc, 1), max(nFiles, 1)).
C2_InFlightBound ==
    opMode = "snapshot" =>
        /\ permits >= 0
        /\ Cardinality(InFlight) <=
              Min(IF cfgMaxConc >= 1 THEN cfgMaxConc ELSE 1,
                  IF nFiles >= 1 THEN nFiles ELSE 1)

C2_Witness ==
    /\ opMode = "snapshot"
    /\ cfgMaxConc = 1
    /\ nFiles = 2
    /\ tPc[1] = "write"
    /\ tPc[2] = "pending"
    /\ permits = 0

Failed == {t \in 1..nFiles : tRes[t] \notin {"none", "ok"}}

\* C3 as stated: when a snapshot has returned, exactly one file task failed
\* and the token never returned true, the error returned is that task's and
\* every other file is on disk in full with the server's bytes.
C3_Original ==
    ( /\ opMode = "snapshot"
      /\ opPc = "done"
      /\ ~everCancel
      /\ Cardinality(Failed) = 1 )
    => \A t \in Failed :
          /\ opResult = tRes[t]
          /\ \A u \in (1..nFiles) \ {t} :
                /\ disk[u] = BodyLen(u)
                /\ u \notin stale

\* C3, amended: when a snapshot has returned, exactly one file task failed
\* and the token never returned true, the error returned is that task's, no
\* path is written, and every other file either was at its destination with
\* the descriptor's size before the call and is left as it was, or has been
\* downloaded in full with the server's bytes.
C3_SingleError ==
    ( /\ opMode = "snapshot"
      /\ opPc = "done"
      /\ ~everCancel
      /\ Cardinality(Failed) = 1 )
    => \A t \in Failed :
          /\ opResult = tRes[t]
          /\ firstErr.task = t
          /\ retCode # XET_OK
          /\ ~outWritten
          /\ \A u \in (1..nFiles) \ {t} :
                /\ tRes[u] = "ok"
                /\ \/ /\ initDisk[u] = FileSize(u)
                      /\ disk[u] = initDisk[u]
                      /\ tNet[u] = {}
                   \/ /\ initDisk[u] # FileSize(u)
                      /\ disk[u] = BodyLen(u)
                      /\ u \notin stale

C3_Witness ==
    /\ opMode = "snapshot"
    /\ opPc = "done"
    /\ ~everCancel
    /\ nFiles = 2
    /\ cfgMaxConc = 1
    /\ tRes[1] = "head_failed"
    /\ opResult = "head_failed"
    /\ tRes[2] = "ok"
    /\ tHow[2] = "http"
    /\ FileSize(2) = 2
    /\ initDisk[2] = 1
    /\ disk[2] = 2

\* C4: a file task that has passed its entry poll and finds its destination
\* present with the descriptor's size ends with Ok in that step, having sent
\* no HEAD, no refresh GET and no download GET; the disk is unchanged and,
\* with a tracker, the file's entry has completed = total = size.
C4_CacheHit ==
    [][\A t \in FileIds :
          (tPc[t] = "check" /\ tPc'[t] # "check" /\ disk[t] = FileSize(t))
          => /\ tPc'[t] = "done"
             /\ tRes'[t] = "ok"
             /\ tNet'[t] = {}
             /\ tmGets' = tmGets
             /\ disk' = disk
             /\ stale' = stale
             /\ hasProgress =>
                  pOp'.files[t] = [present |-> TRUE,
                                   total_bytes |-> FileSize(t),
                                   completed_bytes |-> FileSize(t)]]_vars

C4_Witness ==
    /\ opMode = "snapshot"
    /\ hasProgress
    /\ tPc[1] = "done"
    /\ tHow[1] = "cache"
    /\ tNet[1] = {}
    /\ FileSize(1) = 2
    /\ initDisk[1] = 2
    /\ pOp.files[1].completed_bytes = 2
    /\ pOp.files[1].total_bytes = 2

\* C5 as stated: a download_file call whose destination already holds a file
\* of the descriptor's size sends no request at all, the tree listing
\* included, and returns Ok.
C5_Original ==
    ( /\ opMode = "file"
      /\ reqFile <= nFiles
      /\ initDisk[reqFile] = FileSize(reqFile) )
    => /\ listSent = 0
       /\ tNet[reqFile] = {}
       /\ opPc = "done" => opResult = "ok"

\* C5, amended: a download_file call whose destination already holds a file
\* of the descriptor's size sends the tree listing and nothing else (no HEAD,
\* no refresh GET, no download GET) and leaves the file alone; it returns the
\* path unless the listing fails or the token returned true.
C5_CachedFile ==
    ( /\ opMode = "file"
      /\ reqFile <= nFiles
      /\ initDisk[reqFile] = FileSize(reqFile) )
    => /\ listSent <= 1
       /\ tNet[reqFile] = {}
       /\ \A r \in Routes : tmGets[r] = 0
       /\ disk = initDisk
       /\ opPc = "done" =>
            /\ listSent = 1
            /\ opResult \in {"ok", "list_failed", "cancelled"}
            /\ opResult = "cancelled" => everCancel
            /\ opResult = "ok" => (retCode = XET_OK /\ outWritten)

C5_Witness ==
    /\ opMode = "file"
    /\ opPc = "done"
    /\ opResult = "ok"
    /\ outWritten
    /\ listSent = 1
    /\ tHow[reqFile] = "cache"
    /\ tNet[reqFile] = {}
    /\ FileSize(reqFile) > 0

\* C6: a file task whose dedup path failed never ends with that failure;
\* unless the poll before the GET saw the token true, the plain GET has been
\* sent, and the task ends with what the plain download ends with.  For
\* download_file the call returns that same result.
C6_XetFallback ==
    /\ \A t \in FileIds :
          tXetErr[t] =>
            /\ tRes[t] # "xet_failed"
            /\ tRes[t] # "cancelled" =>
                 /\ "get" \in tNet[t]
                 /\ tPc[t] \in {"get", "stream", "write", "done"}
                 /\ tPc[t] = "done" =>
                      /\ tRes[t] \in {"ok", "get_failed", "stream_failed"}
                      /\ tRes[t] = "ok" =>
                           /\ tHow[t] = "http"
                           /\ disk[t] = BodyLen(t)
                           /\ t \notin stale
    /\ (opMode = "file" /\ opPc = "done" /\ tXetErr[reqFile])
          => opResult = tRes[reqFile]

C6_Witness ==
    /\ opMode = "file"
    /\ opPc = "done"
    /\ tXetErr[reqFile]
    /\ ~everCancel
    /\ "refresh" \in tNet[reqFile]
    /\ "get" \in tNet[reqFile]
    /\ opResult = "ok"
    /\ tHow[reqFile] = "http"

\* C7 as stated: a call that ends because a poll of the token returned true
\* returns an error whose code is Cancelled (7).
C7_CancelledCode ==
    (opPc = "done" /\ opResult = "cancelled") => retCode = XET_CANCELLED

\* C8 as stated: while the token returns true, a streaming download appends
\* nothing more and does not end with Ok, and a snapshot task not yet started
\* ends with an error and has sent no request.
C8_Original ==
    [][(cancel /\ cancel') =>
         \A t \in FileIds :
            /\ tPc[t] \in {"stream", "write"} =>
                 /\ disk'[t] = disk[t]
                 /\ tPc'[t] = "done" => tRes'[t] # "ok"
            /\ (tPc[t] = "pending" /\ tPc'[t] # "pending") =>
                 /\ tRes'[t] # "ok"
                 /\ tNet'[t] = {}]_vars

\* C8, amended: while the token returns true, a streaming download appends
\* at most the one chunk whose poll had already passed; the next chunk it
\* receives is not appended and ends it with an error, and it ends with Ok
\* only when the body ends with no further chunk.  A snapshot task not yet
\* started ends with the cancellation error and has sent no request.
C8_CancelStops ==
    [][(cancel /\ cancel') =>
         \A t \in FileIds :
            /\ tPc[t] = "stream" =>
                 /\ disk'[t] = disk[t]
                 /\ tPc'[t] # "stream" =>
                      /\ tPc'[t] = "done"
                      /\ tRes'[t] \in {"ok", "cancelled", "stream_failed"}
                      /\ tRes'[t] = "ok" => tGot[t] = BodyLen(t)
            /\ tPc[t] = "write" =>
                 /\ tPc'[t] \in {"write", "stream"}
                 /\ disk'[t] <= disk[t] + 1
            /\ (tPc[t] = "pending" /\ tPc'[t] # "pending") =>
                 /\ tPc'[t] = "done"
                 /\ tRes'[t] = "cancelled"
                 /\ tNet'[t] = {}]_vars

C8_Witness ==
    /\ opMode = "snapshot"
    /\ cancel
    /\ tRes[1] = "cancelled"
    /\ tGot[1] = 2
    /\ disk[1] = 1
    /\ tRes[2] = "cancelled"
    /\ tNet[2] = {}

\* C9: under any interleaving of the progress operations the aggregate
\* total_bytes and completed_bytes and every file entry's total_bytes and
\* completed_bytes never decrease, and no file entry is ever removed.
C9_CountersMonotonic ==
    [][/\ pOp'.total_bytes >= pOp.total_bytes
       /\ pOp'.completed_bytes >= pOp.completed_bytes
       /\ \A f \in FileIds :
            pOp.files[f].present =>
              /\ pOp'.files[f].present
              /\ pOp'.files[f].total_bytes >= pOp.files[f].total_bytes
              /\ pOp'.files[f].completed_bytes >= pOp.files[f].completed_bytes
      ]_vars

C9_Witness ==
    /\ pOp.files[1].present
    /\ pOp.files[1].completed_bytes = 1
    /\ pOp.files[1].total_bytes = U64_MAX
    /\ pOp.files[2].present
    /\ pOp.completed_bytes = U64_MAX
    /\ pOp.total_bytes = 1

\* C10: while every connection obtained so far is still valid for 60 s more
\* and only one refresh route has been asked for, concurrent refresh calls
\* send at most one GET to that route in total; the later caller is served
\* from the cache.
C10_OneGetWhileValid ==
    \A route \in Routes :
        ( /\ \A other \in Routes \ {route} : tmGets[other] = 0
          /\ ~tmFailed
          /\ \A e \in tmObtained : e > tmNow + TOKEN_MARGIN_S )
        => /\ tmGets[route] <= 1
           /\ \A c \in Callers :
                (qPc[c] = "done" /\ qRoute[c] = route /\ tmGets[route] = 1)
                => /\ qResult[c] \in {"fetched", "cached"}
                   /\ qConn[c] = tmCache.info

C10_Witness ==
    /\ qPc[1] = "done" /\ qResult[1] = "fetched" /\ qRoute[1] = "routeA"
    /\ qPc[2] = "done" /\ qResult[2] = "cached" /\ qRoute[2] = "routeA"
    /\ qWaited[2]
    /\ tmGets["routeA"] = 1
    /\ tmGets["routeB"] = 0
    /\ ~tmFailed

====
